---- MODULE Spec2Model ----
(***************************************************************************)
(* LRCGen: the track orchestrator of App.tsx (ingestion, per-track         *)
(* pipeline, bounded worker pool, manual retry, LRC upload, removal and    *)
(* reset) together with the retry loop of geminiService.ts.                *)
(*                                                                         *)
(* One action is one macrotask of the browser's event loop: a user event   *)
(* handler, or the resumption of an awaited host operation (file read,     *)
(* isolateVocals, the transcription request, the backoff timer) together   *)
(* with every continuation that runs in its microtasks.  State updates     *)
(* queued with setTracks/setStatus are functional updates applied in call  *)
(* order, so they are applied at once.  User events are enabled by the     *)
(* screen that App renders for the current status (App.tsx 283-466).       *)
(***************************************************************************)
EXTENDS Integers, Sequences, FiniteSets, Bags, TLC

VARIABLES
  status,     \* AppStatus (App.tsx:14)
  tracks,     \* Track[] (App.tsx:15)
  apiKey,     \* TRUE when getApiKey() returns a key
  nextFile,   \* number of files selected so far; file k becomes track id k
  reading,    \* files of the running handleFilesSelect awaiting fileToBase64
  tagging,    \* files awaiting getTrackMetadata (their preview URL exists)
  newTracks,  \* the newTracks array of the running handleFilesSelect
  awaiting,   \* TRUE while handleFilesSelect awaits Promise.all
  orphans,    \* file reads of a failed ingestion that are still running
  live,       \* object URLs created and not yet revoked
  batch,      \* the running (or last) handleGenerateAll: queue and workers
  runs,       \* bag of processTrack invocations suspended at an await
  budget,     \* host failures, user edits and retry clicks still allowed
  editor,     \* the LrcResult editor of the selected track (FileUploader.tsx:236-247)
  file,       \* the file whose metadata getTrackMetadata reads (fileUtils.ts:30)
  call        \* the utility call in progress: its arguments, locals and result

vars == <<status, tracks, apiKey, nextFile, reading, tagging, newTracks,
          awaiting, orphans, live, batch, runs, budget, editor, file, call>>

----------------------------------------------------------------------------
(* Bounds *)
MaxFiles      == 2   \* files selected in one session
MaxSelect     == 2   \* files selected in one handleFilesSelect
MaxUpdates    == 1   \* files matched in one bulk LRC upload
SessionEvents == 3   \* host failures, user edits and retry clicks in a session
BatchTracks   == 4   \* tracks of the worker-pool scenario
BatchEvents   == 2   \* the same events in the worker-pool scenario
RemovalTracks == 2   \* tracks of the removal scenario
RemovalEvents == 2   \* the same events in the removal scenario
ErrorEvents   == 4   \* the same events in the service-error scenario
ServiceTracks == 2   \* tracks of the retry-loop scenario
ServiceEvents == 5   \* the same events in the retry-loop scenario
MaxLines      == 2   \* lines of an LRC document
LrcEdits      == 1   \* visual edits of an LRC document
MaxFrames     == 2   \* frames of an ID3 tag
MaxSamples    == 46  \* samples of a rendered audio buffer
BulkTracks    == 2   \* tracks of the bulk matching scenario
BulkFiles     == 2   \* LRC files uploaded at once
ZipTracks     == 2   \* tracks of the archive export scenario

(* Program constants *)
MAX_RETRIES       == 3
CONCURRENCY_LIMIT == 3

Undef == "<undefined>"

Min(a, b) == IF a < b THEN a ELSE b

(* Track['status'] (types.ts:38) and AppStatus (types.ts:2-10) *)
TrackStatus == {"PENDING", "ISOLATING", "GENERATING", "COMPLETED", "ERROR"}
AppStatus   == {"IDLE", "PROCESSING_AUDIO", "CONFIGURATION", "ISOLATING_VOCALS",
                "GENERATING_LRC", "COMPLETED", "ERROR"}

(* The LRC texts of the model: the empty string, a whitespace-only text, a *)
(* text supplied by the user and a text produced by the service.           *)
UserLrc  == "[00:01.00] user"
GenLrc   == "[00:01.00] gen"
Contents == {"", " ", UserLrc, GenLrc}

(* String.prototype.trim on the texts of the model *)
Trim(s) == IF s = " " THEN "" ELSE s

(* JavaScript truthiness of an optional string *)
Truthy(s) == s # Undef /\ s # ""

(* The raw texts the service returns (response.text), and lines 105-112 of *)
(* generateLrcFromAudio, which strip a code fence and trim.                *)
(* A code fence is written <fence> here.                                   *)
ServiceTexts == {"", "<fence>", "<fence>lrc [00:01.00] gen<fence>", GenLrc}
cleanText(text) ==
  CASE text = "<fence>" -> ""
    [] text = "<fence>lrc [00:01.00] gen<fence>" -> GenLrc
    [] OTHER -> Trim(text)

(* Errors: message and HTTP-like status (0 when the error carries none).   *)
Err(m, s) == [message |-> m, status |-> s]
NoTextError == Err("No text generated from the model.", 0)
NoKeyError  ==
  Err("API Key is missing. Please set it via the 'Set API Key' button or configure your environment.", 0)
ServiceErrors == {Err("bad request", 400), Err("rate limited", 429)}
(* isolateVocals rejects with a decode Error or with the reader's          *)
(* ProgressEvent, which has no message (audioProcessing.ts:116-123).       *)
IsolationErrors == {Err("decode failed", 0), Err("", 0)}

(* A fresh Track as handleFilesSelect builds it (App.tsx:62-72) *)
NewTrack(f) ==
  [id |-> f, previewUrl |-> f, useIsolation |-> FALSE, status |-> "PENDING",
   lrcContent |-> Undef, error |-> Undef]

Ids(ts) == {ts[i].id : i \in DOMAIN ts}
TrackOf(ts, id) == ts[CHOOSE i \in DOMAIN ts : ts[i].id = id]

(* prev.map(t => t.id === id ? F(t) : t) *)
MapTrack(ts, id, F(_)) ==
  [i \in DOMAIN ts |-> IF ts[i].id = id THEN F(ts[i]) ELSE ts[i]]

(* prev.filter(t => P(t)) *)
FilterTracks(ts, P(_)) == SelectSeq(ts, P)

Add(bag, r) == bag (+) SetToBag({r})
Del(bag, r) == bag (-) SetToBag({r})

NoBatch == [queue |-> <<>>, active |-> 0, workers |-> 0,
            pending |-> <<>>, started |-> <<>>]

(* No editor is mounted, no file is being read *)
NoEditor == [content |-> <<>>, title |-> <<>>, artist |-> <<>>, open |-> FALSE]
NoFile   == [name |-> <<>>, bytes |-> <<>>, pc |-> "none"]
NoCall   == [pc |-> "none"]

----------------------------------------------------------------------------
(* The pipeline.  The operators below work on a record                     *)
(*   st = [tracks, runs, batch, status]                                    *)
(* and run a continuation up to its next await of a host operation.        *)

(* A suspended processTrack: the snapshot it was called with (id,          *)
(* useIsolation), where it waits, and the locals of processTrack           *)
(* (finalBase64, finalMimeType) and of generateLrcFromAudio (attempt,      *)
(* lastError).                                                             *)
NoError == Err(Undef, 0)
NewRun(track, kind) ==
  [id |-> track.id, kind |-> kind, useIsolation |-> track.useIsolation,
   pc |-> "start", attempt |-> 0, finalBase64 |-> "track.base64",
   finalMimeType |-> "track.mimeType", lastError |-> NoError]

(* geminiService.ts 61-65 and 76-78: without a key the call rejects at     *)
(* once and the awaiting processTrack resumes in a microtask (pc           *)
(* "rejected"); with a key the first request is sent (pc "generating").    *)
generateLrcFromAudio_noKeyCheck(st, run) ==
  [st EXCEPT !.runs = Add(@, [run EXCEPT !.pc = "generating",
                                          !.attempt = 0,
                                          !.lastError = NoError])]

generateLrcFromAudio(st, run) ==
  IF ~apiKey
    THEN [st EXCEPT !.runs = Add(@, [run EXCEPT !.pc = "rejected",
                                                !.lastError = NoKeyError])]
    ELSE [st EXCEPT !.runs = Add(@, [run EXCEPT !.pc = "generating",
                                                !.attempt = 0,
                                                !.lastError = NoError])]

(* App.tsx 146-150: the first update of processTrack, and a variant that   *)
(* leaves the error in place                                               *)
StartUpdate_keepError(t) ==
  [t EXCEPT !.status = IF t.useIsolation THEN "ISOLATING" ELSE "GENERATING"]

StartUpdate(t) ==
  [t EXCEPT !.status = IF t.useIsolation THEN "ISOLATING" ELSE "GENERATING",
            !.error = Undef]

(* App.tsx 144-174: processTrack up to its first await *)
processTrack(st, track, kind) ==
  LET st1 == [st EXCEPT !.tracks = MapTrack(@, track.id, StartUpdate)]
      run == NewRun(track, kind)
  IN  IF track.useIsolation
        THEN [st1 EXCEPT !.runs = Add(@, [run EXCEPT !.pc = "isolating"])]
        ELSE generateLrcFromAudio(st1, run)

(* App.tsx 214-221: the body of one worker from the test of its loop on.   *)
(* A worker that finds the queue empty returns; when the last one has      *)
(* returned, Promise.all resolves and handleGenerateAll sets COMPLETED     *)
(* (App.tsx 225-233).                                                      *)
worker(st) ==
  IF Len(st.batch.queue) > 0
    THEN LET track == Head(st.batch.queue)
         IN  processTrack([st EXCEPT !.batch.queue = Tail(@),
                                     !.batch.started = Append(@, track.id)],
                          track, "batch")
    ELSE [st EXCEPT !.batch.active = @ - 1,
                    !.status = IF st.batch.active = 1 THEN "COMPLETED" ELSE @]

(* What follows the return of processTrack: the worker's loop, or nothing  *)
(* for handleRetry (App.tsx 218, 239).                                     *)
afterTrack(st, run) == IF run.kind = "batch" THEN worker(st) ELSE st

(* App.tsx 183-190: the catch block of processTrack.  catchError_stop is a *)
(* variant in which the catch block does not return to the worker.         *)
ErrorMessage(error) ==
  IF Truthy(error.message) THEN error.message ELSE "Generation Failed"

ErrorUpdate(t, error) == [t EXCEPT !.status = "ERROR", !.error = ErrorMessage(error)]

catchError_stop(st, run, error) ==
  LET Upd(t) == ErrorUpdate(t, error)
  IN  [st EXCEPT !.tracks = MapTrack(@, run.id, Upd)]

catchError(st, run, error) ==
  LET Upd(t) == ErrorUpdate(t, error)
  IN  afterTrack([st EXCEPT !.tracks = MapTrack(@, run.id, Upd)], run)

(* App.tsx 176-181: the update after a successful generation.              *)
(* completed_upsert is a variant that adds the track when it is missing.   *)
CompletedUpdate(t, result) ==
  [t EXCEPT !.status = "COMPLETED", !.lrcContent = result, !.error = Undef]

completed_upsert(st, run, result) ==
  LET Upd(t) == CompletedUpdate(t, result)
      ts == IF run.id \in Ids(st.tracks)
              THEN MapTrack(st.tracks, run.id, Upd)
              ELSE Append(st.tracks, Upd(NewTrack(run.id)))
  IN  afterTrack([st EXCEPT !.tracks = ts], run)

completed(st, run, result) ==
  LET Upd(t) == CompletedUpdate(t, result)
  IN  afterTrack([st EXCEPT !.tracks = MapTrack(@, run.id, Upd)], run)

(* App.tsx 160-165: after isolateVocals has resolved.  isolated_keepMime   *)
(* is a variant that replaces the payload but not the MIME type.           *)
GeneratingUpdate(t) == [t EXCEPT !.status = "GENERATING"]

isolated_keepMime(st, run) ==
  generateLrcFromAudio(
    [st EXCEPT !.tracks = MapTrack(@, run.id, GeneratingUpdate)],
    [run EXCEPT !.finalBase64 = "processedBase64"])

isolated(st, run) ==
  generateLrcFromAudio(
    [st EXCEPT !.tracks = MapTrack(@, run.id, GeneratingUpdate)],
    [run EXCEPT !.finalBase64 = "processedBase64", !.finalMimeType = "audio/wav"])

(* geminiService.ts 114-131: the catch block of one attempt.               *)
(* attemptFailed_stale is a variant that throws the error recorded before  *)
(* this attempt.                                                           *)
isTerminal_no404(error) == error.status \in {400, 401, 403}

isTerminal(error) == error.status \in {400, 401, 403, 404}

attemptFailed_stale(st, run, error) ==
  LET r == [run EXCEPT !.lastError = error]
  IN  IF run.attempt = MAX_RETRIES \/ isTerminal(error)
        THEN catchError(st, r, run.lastError)
        ELSE [st EXCEPT !.runs = Add(@, [r EXCEPT !.pc = "backoff"])]

attemptFailed(st, run, error) ==
  LET r == [run EXCEPT !.lastError = error]
  IN  IF run.attempt = MAX_RETRIES \/ isTerminal(error)
        THEN catchError(st, r, r.lastError)
        ELSE [st EXCEPT !.runs = Add(@, [r EXCEPT !.pc = "backoff"])]

(* geminiService.ts 76 and 134-135: the loop's increment and test after    *)
(* the backoff wait                                                        *)
nextAttempt(st, run) ==
  IF run.attempt + 1 <= MAX_RETRIES
    THEN [st EXCEPT !.runs = Add(@, [run EXCEPT !.pc = "generating",
                                                !.attempt = @ + 1])]
    ELSE catchError(st, run, run.lastError)

(* geminiService.ts 99-112: a response has arrived *)
responded(st, run, text) ==
  IF ~Truthy(text)
    THEN attemptFailed(st, run, NoTextError)
    ELSE completed(st, run, cleanText(text))

(* App.tsx 224: Array.from({length: n}, () => worker()) *)
RECURSIVE startWorkers(_, _)
startWorkers(st, n) == IF n = 0 THEN st ELSE startWorkers(worker(st), n - 1)

(* App.tsx 198: the filter of handleGenerateAll, and a variant that looks  *)
(* at the text only                                                        *)
isPending_textOnly(t) == ~Truthy(t.lrcContent) \/ Trim(t.lrcContent) = ""

isPending(t) ==
  t.status # "COMPLETED" /\ (~Truthy(t.lrcContent) \/ Trim(t.lrcContent) = "")

Snapshot(t) == [id |-> t.id, useIsolation |-> t.useIsolation]
SeqMap(F(_), sq) == [i \in DOMAIN sq |-> F(sq[i])]
TrackId(t) == t.id

(* App.tsx 193-234 *)
handleGenerateAll(st) ==
  LET pendingTracks == FilterTracks(st.tracks, isPending)
      n == Min(CONCURRENCY_LIMIT, Len(pendingTracks))
  IN  IF Len(pendingTracks) = 0
        THEN [st EXCEPT !.status = "COMPLETED"]
        ELSE startWorkers(
               [st EXCEPT !.status = "GENERATING_LRC",
                          !.batch = [queue   |-> SeqMap(Snapshot, pendingTracks),
                                     active  |-> n,
                                     workers |-> n,
                                     pending |-> SeqMap(TrackId, pendingTracks),
                                     started |-> <<>>]],
               n)

(* App.tsx 236-240 *)
handleRetry(st, id) ==
  IF id \notin Ids(st.tracks)
    THEN st
    ELSE processTrack(st, Snapshot(TrackOf(st.tracks, id)), "retry")

(* App.tsx 89-96 *)
handleUploadLrc(ts, id, content) ==
  LET Upd(t) == [t EXCEPT !.lrcContent = content,
                          !.status = IF Truthy(content) THEN "COMPLETED" ELSE "PENDING",
                          !.error = Undef]
  IN  MapTrack(ts, id, Upd)

(* App.tsx 98-114 *)
RECURSIVE handleBulkUploadLrc(_, _)
handleBulkUploadLrc(ts, updates) ==
  IF updates = <<>> THEN ts
  ELSE LET update == Head(updates)
           Upd(t) == [t EXCEPT !.lrcContent = update.content,
                               !.status = "COMPLETED",
                               !.error = Undef]
       IN  handleBulkUploadLrc(MapTrack(ts, update.id, Upd), Tail(updates))

(* App.tsx 117-123 (the metadata is not modelled) *)
handleTrackContentChange(ts, id, newContent) ==
  LET Upd(t) == [t EXCEPT !.lrcContent = newContent]
  IN  MapTrack(ts, id, Upd)

(* App.tsx 125-127 *)
handleToggleIsolation(ts, id) ==
  LET Upd(t) == [t EXCEPT !.useIsolation = ~t.useIsolation]
  IN  MapTrack(ts, id, Upd)

----------------------------------------------------------------------------
(* Actions *)

Init ==
  /\ status = "IDLE"
  /\ tracks = <<>>
  /\ apiKey \in BOOLEAN
  /\ nextFile = 0
  /\ reading = {}
  /\ tagging = {}
  /\ newTracks = <<>>
  /\ awaiting = FALSE
  /\ orphans = {}
  /\ live = {}
  /\ batch = NoBatch
  /\ runs = EmptyBag
  /\ budget = SessionEvents
  /\ editor = NoEditor
  /\ file = NoFile
  /\ call = NoCall

St == [tracks |-> tracks, runs |-> runs, batch |-> batch, status |-> status]

Apply(st) ==
  /\ tracks' = st.tracks
  /\ runs' = st.runs
  /\ batch' = st.batch
  /\ status' = st.status

Ingestion == <<nextFile, reading, tagging, newTracks, awaiting, orphans>>

(* Microtasks run before the next event or completion is delivered: while  *)
(* a rejected call waits to resume its caller, nothing else happens.       *)
NoMicrotask == \A r \in BagToSet(runs) : r.pc # "rejected"

(* The per-track controls of ConfigurationStep (278-279): a track that is  *)
(* COMPLETED or carries LRC text shows "clear", any other shows "upload"   *)
(* and the isolation toggle.                                               *)
isDone(t) == t.status = "COMPLETED" \/ (Truthy(t.lrcContent) /\ Trim(t.lrcContent) # "")

(* App.tsx 47-57: handleFilesSelect up to the await of each fileToBase64 *)
HandleFilesSelect(n) ==
  /\ NoMicrotask
  /\ status \in {"IDLE", "CONFIGURATION"}
  /\ nextFile + n <= MaxFiles
  /\ status' = "PROCESSING_AUDIO"
  /\ nextFile' = nextFile + n
  /\ reading' = (nextFile + 1)..(nextFile + n)
  /\ tagging' = {}
  /\ newTracks' = <<>>
  /\ awaiting' = TRUE
  /\ UNCHANGED <<call, editor, file, tracks, apiKey, orphans, live, batch, runs, budget>>

(* App.tsx 56-60: fileToBase64 resolves, the preview URL is created *)
ReadDone(f) ==
  /\ NoMicrotask
  /\ f \in reading
  /\ reading' = reading \ {f}
  /\ tagging' = tagging \cup {f}
  /\ live' = live \cup {f}
  /\ UNCHANGED <<call, editor, file, status, tracks, apiKey, nextFile, newTracks, awaiting, orphans,
                 batch, runs, budget>>

(* App.tsx 78-82: fileToBase64 rejects, Promise.all rejects, the catch     *)
(* block runs.  The other files' continuations go on; those still reading  *)
(* may yet create a URL.                                                   *)
ReadFailed(f) ==
  /\ NoMicrotask
  /\ f \in reading
  /\ budget > 0
  /\ budget' = budget - 1
  /\ status' = "ERROR"
  /\ orphans' = orphans \cup (reading \ {f})
  /\ reading' = {}
  /\ tagging' = {}
  /\ newTracks' = <<>>
  /\ awaiting' = FALSE
  /\ UNCHANGED <<call, editor, file, tracks, apiKey, nextFile, live, batch, runs>>

(* App.tsx 60-76: getTrackMetadata resolves, the track is pushed; after    *)
(* the last one Promise.all resolves and the tracks are appended.          *)
TagDone(f) ==
  /\ NoMicrotask
  /\ f \in tagging
  /\ tagging' = tagging \ {f}
  /\ LET pushed == Append(newTracks, NewTrack(f))
     IN  IF reading = {} /\ tagging = {f}
           THEN /\ tracks' = tracks \o pushed
                /\ status' = "CONFIGURATION"
                /\ newTracks' = <<>>
                /\ awaiting' = FALSE
           ELSE /\ newTracks' = pushed
                /\ UNCHANGED <<tracks, status, awaiting>>
  /\ UNCHANGED <<call, editor, file, apiKey, nextFile, reading, orphans, live, batch, runs, budget>>

(* A file read of a failed ingestion completes: its URL is created (56-57) *)
(* and the track is pushed on an array nobody reads.                       *)
OrphanReadDone(f) ==
  /\ NoMicrotask
  /\ f \in orphans
  /\ orphans' = orphans \ {f}
  /\ live' = live \cup {f}
  /\ UNCHANGED <<call, editor, file, status, tracks, apiKey, nextFile, reading, tagging, newTracks,
                 awaiting, batch, runs, budget>>

(* ConfigurationStep 354 and 62-79: clear the LRC of a done track, or      *)
(* upload a file for a track that is not done.                             *)
HandleUploadLrc(id, content) ==
  /\ NoMicrotask
  /\ status = "CONFIGURATION"
  /\ id \in Ids(tracks)
  /\ IF isDone(TrackOf(tracks, id)) THEN content = Undef ELSE content # Undef
  /\ budget > 0
  /\ budget' = budget - 1
  /\ tracks' = handleUploadLrc(tracks, id, content)
  /\ UNCHANGED <<call, editor, file, status, apiKey, Ingestion, live, batch, runs>>

(* ConfigurationStep 81-141: every update names a track of the list *)
HandleBulkUploadLrc(updates) ==
  /\ NoMicrotask
  /\ status = "CONFIGURATION"
  /\ Len(updates) > 0
  /\ \A i \in DOMAIN updates : updates[i].id \in Ids(tracks)
  /\ budget > 0
  /\ budget' = budget - 1
  /\ tracks' = handleBulkUploadLrc(tracks, updates)
  /\ UNCHANGED <<call, editor, file, status, apiKey, Ingestion, live, batch, runs>>

(* App.tsx 403-415: the editor is shown for a COMPLETED track with text *)
HandleTrackContentChange(id, newContent) ==
  /\ NoMicrotask
  /\ status = "COMPLETED"
  /\ id \in Ids(tracks)
  /\ TrackOf(tracks, id).status = "COMPLETED"
  /\ Truthy(TrackOf(tracks, id).lrcContent)
  /\ budget > 0
  /\ budget' = budget - 1
  /\ tracks' = handleTrackContentChange(tracks, id, newContent)
  /\ UNCHANGED <<call, editor, file, status, apiKey, Ingestion, live, batch, runs>>

(* ConfigurationStep 292-296 *)
HandleToggleIsolation(id) ==
  /\ NoMicrotask
  /\ status = "CONFIGURATION"
  /\ id \in Ids(tracks)
  /\ ~isDone(TrackOf(tracks, id))
  /\ budget > 0
  /\ budget' = budget - 1
  /\ tracks' = handleToggleIsolation(tracks, id)
  /\ UNCHANGED <<call, editor, file, status, apiKey, Ingestion, live, batch, runs>>

(* Header.tsx 55-59: the key is stored or removed *)
SetApiKey ==
  /\ NoMicrotask
  /\ budget > 0
  /\ budget' = budget - 1
  /\ apiKey' = ~apiKey
  /\ UNCHANGED <<call, editor, file, status, tracks, Ingestion, live, batch, runs>>

(* App.tsx 129-141 *)
HandleRemoveTrack(id) ==
  /\ NoMicrotask
  /\ status = "CONFIGURATION"
  /\ id \in Ids(tracks)
  /\ LET Keep(t) == t.id # id
         newList == FilterTracks(tracks, Keep)
     IN  /\ tracks' = newList
         /\ live' = live \ {TrackOf(tracks, id).previewUrl}
         /\ status' = IF Len(newList) = 0 THEN "IDLE" ELSE status
  /\ UNCHANGED <<call, editor, file, apiKey, Ingestion, batch, runs, budget>>

(* App.tsx 242-248 *)
HandleReset ==
  /\ NoMicrotask
  /\ \/ status \in {"CONFIGURATION", "ERROR"}
     \/ status = "COMPLETED" /\ Len(tracks) > 0
  /\ live' = live \ {tracks[i].previewUrl : i \in DOMAIN tracks}
  /\ tracks' = <<>>
  /\ status' = "IDLE"
  /\ UNCHANGED <<call, editor, file, apiKey, Ingestion, batch, runs, budget>>

(* App.tsx 250-252 *)
HandleModifyConfig ==
  /\ NoMicrotask
  /\ status = "COMPLETED"
  /\ Len(tracks) > 0
  /\ status' = "CONFIGURATION"
  /\ UNCHANGED <<call, editor, file, tracks, apiKey, Ingestion, live, batch, runs, budget>>

(* App.tsx 193-234, up to the first await of every worker *)
HandleGenerateAll ==
  /\ NoMicrotask
  /\ status = "CONFIGURATION"
  /\ Len(tracks) > 0
  /\ Apply(handleGenerateAll(St))
  /\ UNCHANGED <<call, editor, file, apiKey, Ingestion, live, budget>>

(* App.tsx 416-426: the retry button of a track in ERROR *)
HandleRetry(id) ==
  /\ NoMicrotask
  /\ status = "COMPLETED"
  /\ id \in Ids(tracks)
  /\ TrackOf(tracks, id).status = "ERROR"
  /\ budget > 0
  /\ budget' = budget - 1
  /\ Apply(handleRetry(St, id))
  /\ UNCHANGED <<call, editor, file, apiKey, Ingestion, live>>

Taken(r) == [St EXCEPT !.runs = Del(@, r)]

(* isolateVocals resolves *)
IsolationDone(r) ==
  /\ NoMicrotask
  /\ r \in BagToSet(runs)
  /\ r.pc = "isolating"
  /\ Apply(isolated(Taken(r), r))
  /\ UNCHANGED <<call, editor, file, apiKey, Ingestion, live, budget>>

(* isolateVocals rejects *)
IsolationFailed(r, error) ==
  /\ NoMicrotask
  /\ r \in BagToSet(runs)
  /\ r.pc = "isolating"
  /\ budget > 0
  /\ budget' = budget - 1
  /\ Apply(catchError(Taken(r), r, error))
  /\ UNCHANGED <<call, editor, file, apiKey, Ingestion, live>>

(* ai.models.generateContent resolves *)
ServiceReturned(r, text) ==
  /\ NoMicrotask
  /\ r \in BagToSet(runs)
  /\ r.pc = "generating"
  /\ ~Truthy(text) => budget > 0
  /\ budget' = IF Truthy(text) THEN budget ELSE budget - 1
  /\ Apply(responded(Taken(r), r, text))
  /\ UNCHANGED <<call, editor, file, apiKey, Ingestion, live>>

(* ai.models.generateContent rejects *)
ServiceThrew(r, error) ==
  /\ NoMicrotask
  /\ r \in BagToSet(runs)
  /\ r.pc = "generating"
  /\ budget > 0
  /\ budget' = budget - 1
  /\ Apply(attemptFailed(Taken(r), r, error))
  /\ UNCHANGED <<call, editor, file, apiKey, Ingestion, live>>

(* the backoff timer fires *)
BackoffDone(r) ==
  /\ NoMicrotask
  /\ r \in BagToSet(runs)
  /\ r.pc = "backoff"
  /\ Apply(nextAttempt(Taken(r), r))
  /\ UNCHANGED <<call, editor, file, apiKey, Ingestion, live, budget>>

(* the awaiting processTrack resumes with the rejection of a call made     *)
(* without a key (App.tsx 168, 183)                                        *)
KeyMissing(r) ==
  /\ r \in BagToSet(runs)
  /\ r.pc = "rejected"
  /\ Apply(catchError(Taken(r), r, r.lastError))
  /\ UNCHANGED <<call, editor, file, apiKey, Ingestion, live, budget>>

UploadTexts == {"", " ", UserLrc}
UpdatesFor(ts) ==
  UNION {[1..k -> [id : Ids(ts), content : {"", UserLrc}]] : k \in 1..MaxUpdates}

Ingest ==
  \/ \E n \in 1..MaxSelect : HandleFilesSelect(n)
  \/ \E f \in reading : ReadDone(f)
  \/ \E f \in reading : ReadFailed(f)
  \/ \E f \in tagging : TagDone(f)
  \/ \E f \in orphans : OrphanReadDone(f)

Pipeline ==
  \/ \E r \in BagToSet(runs) : IsolationDone(r)
  \/ \E r \in BagToSet(runs), e \in IsolationErrors : IsolationFailed(r, e)
  \/ \E r \in BagToSet(runs), text \in ServiceTexts : ServiceReturned(r, text)
  \/ \E r \in BagToSet(runs), e \in ServiceErrors : ServiceThrew(r, e)
  \/ \E r \in BagToSet(runs) : BackoffDone(r)
  \/ \E r \in BagToSet(runs) : KeyMissing(r)

Next ==
  \/ Ingest
  \/ \E id \in Ids(tracks), content \in UploadTexts \cup {Undef} : HandleUploadLrc(id, content)
  \/ \E updates \in UpdatesFor(tracks) : HandleBulkUploadLrc(updates)
  \/ \E id \in Ids(tracks), c \in {"", UserLrc} : HandleTrackContentChange(id, c)
  \/ \E id \in Ids(tracks) : HandleToggleIsolation(id)
  \/ SetApiKey
  \/ \E id \in Ids(tracks) : HandleRemoveTrack(id)
  \/ HandleReset
  \/ HandleModifyConfig
  \/ HandleGenerateAll
  \/ \E id \in Ids(tracks) : HandleRetry(id)
  \/ Pipeline

Spec == Init /\ [][Next]_vars

(* The session when every host operation a pipeline waits for              *)
(* (isolateVocals, generateContent, the backoff timer, the microtask of a  *)
(* rejected call) is eventually delivered                                  *)
SpecBarrier == Init /\ [][Next]_vars /\ WF_vars(Pipeline)

(* The session right after the ingestion of n files (App.tsx 75-76) *)
Ingested(n) ==
  /\ tracks = [i \in 1..n |-> NewTrack(i)]
  /\ nextFile = n
  /\ live = 1..n
  /\ status = "CONFIGURATION"
  /\ reading = {}
  /\ tagging = {}
  /\ newTracks = <<>>
  /\ awaiting = FALSE
  /\ orphans = {}
  /\ batch = NoBatch
  /\ runs = EmptyBag

(* The worker pool: up to BatchTracks ingested files, and the operations   *)
(* the screens offer from there on, with few failures and user edits.      *)
InitBatch ==
  /\ \E n \in 1..BatchTracks : Ingested(n)
  /\ apiKey \in BOOLEAN
  /\ budget = BatchEvents
  /\ editor = NoEditor
  /\ file = NoFile
  /\ call = NoCall

NextBatch ==
  \/ \E id \in Ids(tracks), content \in UploadTexts \cup {Undef} : HandleUploadLrc(id, content)
  \/ \E id \in Ids(tracks) : HandleToggleIsolation(id)
  \/ SetApiKey
  \/ HandleGenerateAll
  \/ HandleModifyConfig
  \/ \E id \in Ids(tracks) : HandleRetry(id)
  \/ Pipeline

SpecBatch == InitBatch /\ [][NextBatch]_vars

(* A small session after ingestion: few tracks, the whole pipeline with    *)
(* isolation, manual retry, and the operations that take tracks out of the *)
(* collection while a retried pipeline is in flight.                       *)
InitRemoval ==
  /\ \E n \in 1..RemovalTracks : Ingested(n)
  /\ apiKey \in BOOLEAN
  /\ budget = RemovalEvents
  /\ editor = NoEditor
  /\ file = NoFile
  /\ call = NoCall

NextRemoval ==
  \/ \E id \in Ids(tracks) : HandleToggleIsolation(id)
  \/ SetApiKey
  \/ \E id \in Ids(tracks) : HandleRemoveTrack(id)
  \/ HandleReset
  \/ HandleGenerateAll
  \/ HandleModifyConfig
  \/ \E id \in Ids(tracks) : HandleRetry(id)
  \/ Pipeline

SpecRemoval == InitRemoval /\ [][NextRemoval]_vars

(* The errors of the service by status: the four client errors, rate      *)
(* limiting, a server error, and an error that carries no status.          *)
StatusErrors ==
  {Err("bad request", 400), Err("unauthorized", 401), Err("forbidden", 403),
   Err("not found", 404), Err("rate limited", 429), Err("internal", 500),
   Err("fetch failed", 0)}

(* One call of generateLrcFromAudio for one track, with every kind of      *)
(* failure of the service.                                                 *)
InitErrors ==
  /\ Ingested(1)
  /\ apiKey = TRUE
  /\ budget = ErrorEvents
  /\ editor = NoEditor
  /\ file = NoFile
  /\ call = NoCall

NextErrors ==
  \/ HandleGenerateAll
  \/ HandleModifyConfig
  \/ \E r \in BagToSet(runs), text \in ServiceTexts : ServiceReturned(r, text)
  \/ \E r \in BagToSet(runs), e \in StatusErrors : ServiceThrew(r, e)
  \/ \E r \in BagToSet(runs) : BackoffDone(r)

SpecErrors == InitErrors /\ [][NextErrors]_vars

(* The retry loop: few tracks, no user edits, and enough failures to       *)
(* exhaust the attempts of one call.                                       *)
InitService ==
  /\ \E n \in 1..ServiceTracks : Ingested(n)
  /\ apiKey \in BOOLEAN
  /\ budget = ServiceEvents
  /\ editor = NoEditor
  /\ file = NoFile
  /\ call = NoCall

NextService ==
  \/ HandleGenerateAll
  \/ HandleModifyConfig
  \/ \E id \in Ids(tracks) : HandleRetry(id)
  \/ \E r \in BagToSet(runs), text \in ServiceTexts : ServiceReturned(r, text)
  \/ \E r \in BagToSet(runs), e \in ServiceErrors : ServiceThrew(r, e)
  \/ \E r \in BagToSet(runs) : BackoffDone(r)
  \/ \E r \in BagToSet(runs) : KeyMissing(r)

SpecService == InitService /\ [][NextService]_vars

(***************************************************************************)
(* LRC documents (components/FileUploader.tsx).  A string is a sequence of *)
(* one-character strings, a timestamp is a number of milliseconds.         *)
(***************************************************************************)
Digits == <<"0", "1", "2", "3", "4", "5", "6", "7", "8", "9">>
IsDigit(c) == \E i \in DOMAIN Digits : Digits[i] = c              \* \d
DigitVal(c) == (CHOOSE i \in DOMAIN Digits : Digits[i] = c) - 1
WhiteSpace == {" ", "\t", "\r", "\n"}
LineTerminators == {"\n", "\r"}

(* String.prototype.split('\n') *)
RECURSIVE split(_)
split(s) ==
  IF \A i \in DOMAIN s : s[i] # "\n" THEN <<s>>
  ELSE LET i == CHOOSE k \in DOMAIN s :
                  s[k] = "\n" /\ \A j \in 1..(k - 1) : s[j] # "\n"
       IN  <<SubSeq(s, 1, i - 1)>> \o split(SubSeq(s, i + 1, Len(s)))

(* Array.prototype.join('\n') *)
RECURSIVE join(_)
join(ls) ==
  IF ls = <<>> THEN <<>>
  ELSE IF Len(ls) = 1 THEN ls[1]
  ELSE ls[1] \o <<"\n">> \o join(Tail(ls))

(* String.prototype.trim *)
RECURSIVE trimStart(_)
trimStart(s) ==
  IF s # <<>> /\ s[1] \in WhiteSpace THEN trimStart(Tail(s)) ELSE s
RECURSIVE trimEnd(_)
trimEnd(s) ==
  IF s # <<>> /\ s[Len(s)] \in WhiteSpace
  THEN trimEnd(SubSeq(s, 1, Len(s) - 1)) ELSE s
trimChars(s) == trimEnd(trimStart(s))

\* The number of fraction digits with which a line matches the pattern
\* /^\[(\d{2}):(\d{2}\.\d{2,3})\](.*)/ of parseLrc, 0 when it does not match
FractionDigits(line) ==
  IF /\ Len(line) >= 10
     /\ line[1] = "[" /\ IsDigit(line[2]) /\ IsDigit(line[3]) /\ line[4] = ":"
     /\ IsDigit(line[5]) /\ IsDigit(line[6]) /\ line[7] = "."
     /\ IsDigit(line[8]) /\ IsDigit(line[9])
  THEN IF Len(line) >= 11 /\ IsDigit(line[10]) /\ line[11] = "]" THEN 3
       ELSE IF line[10] = "]" THEN 2
       ELSE 0
  ELSE 0

\* The group (.*) of the pattern: the characters up to a line terminator
RECURSIVE dotStar(_)
dotStar(s) ==
  IF s = <<>> \/ s[1] \in LineTerminators THEN <<>>
  ELSE <<s[1]>> \o dotStar(Tail(s))

(* parseInt(match[1]) and parseFloat(match[2]) *)
parseInt(line) == DigitVal(line[2]) * 10 + DigitVal(line[3])
parseFloat(line) ==
  (DigitVal(line[5]) * 10 + DigitVal(line[6])) * 1000
    + DigitVal(line[8]) * 100 + DigitVal(line[9]) * 10
    + (IF FractionDigits(line) = 3 THEN DigitVal(line[10]) ELSE 0)

(* The entry pushed for a matching line; index counts from 0 *)
parseLine(line, index) ==
  [id      |-> index,
   seconds |-> parseInt(line) * 60000 + parseFloat(line),
   text    |-> trimChars(dotStar(SubSeq(line, 9 + FractionDigits(line),
                                       Len(line))))]

(* lines.forEach: the entries of the matching lines, in input order *)
RECURSIVE forEach(_, _)
forEach(lines, n) ==
  IF n = 0 THEN <<>>
  ELSE forEach(lines, n - 1)
         \o (IF FractionDigits(lines[n]) > 0
             THEN <<parseLine(lines[n], n - 1)>> ELSE <<>>)

(* result.sort((a, b) => a.seconds - b.seconds): Array.prototype.sort is   *)
(* stable, an entry goes behind the entries that are not later than it     *)
RECURSIVE insert(_, _)
insert(sorted, x) ==
  IF sorted = <<>> THEN <<x>>
  ELSE IF sorted[1].seconds <= x.seconds
       THEN <<sorted[1]>> \o insert(Tail(sorted), x)
       ELSE <<x>> \o sorted
RECURSIVE sort(_)
sort(ls) ==
  IF ls = <<>> THEN <<>>
  ELSE insert(sort(SubSeq(ls, 1, Len(ls) - 1)), ls[Len(ls)])

parseLrc_unsorted(lrc) == LET lines == split(lrc) IN forEach(lines, Len(lines))
parseLrc(lrc) == LET lines == split(lrc) IN sort(forEach(lines, Len(lines)))

(* Number.prototype.toString and String.prototype.padStart(n, '0') *)
RECURSIVE toString(_)
toString(n) ==
  IF n < 10 THEN <<Digits[n + 1]>>
  ELSE toString(n \div 10) \o <<Digits[(n % 10) + 1]>>
RECURSIVE padStart(_, _)
padStart(s, n) == IF Len(s) >= n THEN s ELSE padStart(<<"0">> \o s, n)

(* A value that lies halfway between two hundredths: its binary            *)
(* representation decides the direction in which toFixed(2) rounds it      *)
Halfway(ms) == ms % 10 = 5

(* sec.toFixed(2), rounding a halfway value upwards when up holds *)
toFixed(ms, up) ==
  LET cs == IF ms % 10 > 5 \/ (Halfway(ms) /\ up)
            THEN ms \div 10 + 1 ELSE ms \div 10
  IN  toString(cs \div 100) \o <<".">> \o padStart(toString(cs % 100), 2)

(* The text of one entry: `[${minStr}:${secStr}] ${line.text}` *)
stringifyLine(line, up) ==
  LET min    == line.seconds \div 60000
      sec    == line.seconds % 60000
      secStr == padStart(toFixed(sec, up), 5)
      minStr == padStart(toString(min), 2)
  IN  <<"[">> \o minStr \o <<":">> \o secStr \o <<"]", " ">> \o line.text

(* The header lines of the metadata fields that are truthy *)
Headers(metadata) ==
  (IF metadata.title # <<>>
   THEN <<"[", "t", "i", ":">> \o metadata.title \o <<"]", "\n">> ELSE <<>>)
  \o (IF metadata.artist # <<>>
      THEN <<"[", "a", "r", ":">> \o metadata.artist \o <<"]", "\n">> ELSE <<>>)

(* ups: the halfway values that toFixed rounds upwards *)
stringifyLrc(lines, metadata, ups) ==
  Headers(metadata)
    \o join([i \in DOMAIN lines |->
              stringifyLine(lines[i], (lines[i].seconds % 60000) \in ups)])

(* The halfway values that toFixed has to round *)
HalfwayIn(lines) ==
  {lines[i].seconds % 60000 : i \in {k \in DOMAIN lines :
                                       Halfway(lines[k].seconds % 60000)}}

(* The lines of the documents that are examined *)
LrcLines ==
  {<<"[", "0", "0", ":", "0", "0", ".", "0", "5", "]", " ", "l", "i", "n", "e", " ", "o", "n", "e">>,
   <<"[", "0", "0", ":", "0", "5", ".", "0", "0", "]", " ", "l", "i", "n", "e", " ", "t", "w", "o">>,
   <<"[", "0", "0", ":", "0", "5", ".", "0", "0", "]", " ", " ", " ", "t", "i", "e", " ", " ">>,
   <<"[", "0", "1", ":", "1", "5", ".", "0", "0", "5", "]", "x">>,
   <<"[", "0", "0", ":", "7", "5", ".", "0", "0", "]", " ", "l", "a", "t", "e", "\r">>,
   <<"[", "9", "9", ":", "5", "9", ".", "9", "9", "9", "]", " ", "e", "n", "d">>,
   <<"[", "9", "9", ":", "6", "0", ".", "0", "0", "]", " ", "o", "v", "e", "r">>,
   <<"[", "t", "i", ":", "S", "o", "n", "g", "]">>,
   <<" ", "[", "0", "0", ":", "0", "1", ".", "0", "0", "]", " ", "i", "n", "d", "e", "n", "t", "e", "d">>,
   <<"[", "0", "0", ":", "0", "1", ".", "5", "]", " ", "t", "e", "n", "t", "h">>,
   <<>>}

(* The documents of 1 to n lines; the editor is mounted on a non-empty     *)
(* text only (App.tsx 403)                                                 *)
Documents(n) ==
  {join(ls) : ls \in UNION {[1..k -> LrcLines] : k \in 1..n}} \ {<<>>}

(* What the user types into the title, artist and line inputs *)
Titles   == {<<>>, <<"S", "o", "n", "g">>}
Artists  == {<<>>, <<"B", "a", "n", "d">>}
NewTexts == {<<"l", "a">>, <<"l", "a", " ">>}

Max(a, b) == IF a >= b THEN a ELSE b

(* The editor (LrcResult) of a completed track, mounted on a document;     *)
(* title and artist are what the inputs hold (FileUploader.tsx 415, 427)   *)
Mounted(lrcData) ==
  /\ tracks = <<[NewTrack(1) EXCEPT !.status = "COMPLETED",
                                    !.lrcContent = lrcData]>>
  /\ nextFile = 1
  /\ live = {1}
  /\ status = "COMPLETED"
  /\ reading = {}
  /\ tagging = {}
  /\ newTracks = <<>>
  /\ awaiting = FALSE
  /\ orphans = {}
  /\ batch = NoBatch
  /\ runs = EmptyBag
  /\ apiKey = TRUE
  /\ file = NoFile
  /\ call = NoCall
  /\ \E title \in Titles, artist \in Artists :
       editor = [content |-> lrcData, title |-> title, artist |-> artist,
                 open |-> TRUE]

(* useMemo(() => parseLrc(content), [content]) (FileUploader.tsx 280), and  *)
(* a variant that keeps the entries in the order of the lines              *)
parsedLines_unsorted ==
  LET lines == split(editor.content) IN forEach(lines, Len(lines))
parsedLines == parseLrc(editor.content)

(* setContent(stringifyLrc(newLines, { title, artist })), and the effect   *)
(* that hands the new content to handleTrackContentChange (254-258)        *)
SetContent(newLines) ==
  /\ editor.open
  /\ budget > 0
  /\ budget' = budget - 1
  /\ \E ups \in SUBSET HalfwayIn(newLines) :
       LET content == stringifyLrc(newLines, [title  |-> editor.title,
                                              artist |-> editor.artist], ups)
       IN  /\ editor' = [editor EXCEPT !.content = content]
           /\ tracks' = handleTrackContentChange(tracks, tracks[1].id, content)
  /\ UNCHANGED <<call, status, apiKey, nextFile, reading, tagging, newTracks,
                 awaiting, orphans, live, batch, runs, file>>

(* FileUploader.tsx 320-324; the buttons pass -0.1 and 0.1 (507, 519) *)
AdjustTimestamp(index, delta) ==
  /\ index \in DOMAIN parsedLines
  /\ SetContent([parsedLines EXCEPT ![index].seconds = Max(0, @ + delta)])

(* FileUploader.tsx 326-330 *)
UpdateLineText(index, newText) ==
  /\ index \in DOMAIN parsedLines
  /\ SetContent([parsedLines EXCEPT ![index].text = newText])

(* The editor on every document of up to MaxLines lines, and LrcEdits      *)
(* visual edits of it                                                      *)
InitLrc ==
  /\ \E lrcData \in Documents(MaxLines) : Mounted(lrcData)
  /\ budget = LrcEdits

NextLrc ==
  \/ \E index \in DOMAIN parsedLines, delta \in {-100, 100} :
       AdjustTimestamp(index, delta)
  \/ \E index \in DOMAIN parsedLines :
       \E newText \in NewTexts \cup {parsedLines[index].text} :
         UpdateLineText(index, newText)

SpecLrc == InitLrc /\ [][NextLrc]_vars

(***************************************************************************)
(* Track metadata (utils/fileUtils.ts).  A buffer is a sequence of bytes,  *)
(* byte i of the source is element i + 1; a text is a sequence of          *)
(* one-character strings.                                                  *)
(***************************************************************************)
UndefinedText == <<"<undefined>">>
Unknown == <<"U", "n", "k", "n", "o", "w", "n">>
TruthyText(s) == s # UndefinedText /\ s # <<>>

(* The characters of the codes 32 to 126 *)
Printable ==
  <<" ", "!", "<quote>", "#", "$", "%", "&", "'", "(", ")", "*", "+",
    ",", "-", ".", "/", "0", "1", "2", "3", "4", "5", "6", "7",
    "8", "9", ":", ";", "<", "=", ">", "?", "@", "A", "B", "C",
    "D", "E", "F", "G", "H", "I", "J", "K", "L", "M", "N", "O",
    "P", "Q", "R", "S", "T", "U", "V", "W", "X", "Y", "Z", "[",
    "<backslash>", "]", "^", "_", "<backquote>", "a", "b", "c", "d", "e", "f", "g",
    "h", "i", "j", "k", "l", "m", "n", "o", "p", "q", "r", "s",
    "t", "u", "v", "w", "x", "y", "z", "{", "|", "}", "~">>

(* String.fromCharCode, and what a decoder yields for a code point; the    *)
(* code points beyond the table are told apart by name only                *)
fromCharCode(c) ==
  IF c \in 32..126 THEN Printable[c - 31]
  ELSE IF c = 0 THEN "<NUL>"
  ELSE IF c = 9 THEN "\t"
  ELSE IF c = 10 THEN "\n"
  ELSE IF c = 13 THEN "\r"
  ELSE IF c = 65533 THEN "<U+FFFD>"
  ELSE "<other>"

(* new TextDecoder('utf-8').decode: the bytes below 128 are themselves,    *)
(* the bytes 0xFE and 0xFF are never valid and come out as U+FFFD (the     *)
(* buffers examined hold no other byte above 127)                          *)
decodeUtf8(textBytes) ==
  [i \in DOMAIN textBytes |->
     fromCharCode(IF textBytes[i] < 128 THEN textBytes[i] ELSE 65533)]

(* new TextDecoder('utf-16').decode: little-endian code units, a leading   *)
(* byte order mark FF FE is dropped, an odd last byte comes out as U+FFFD  *)
RECURSIVE decodeUnits(_)
decodeUnits(textBytes) ==
  IF textBytes = <<>> THEN <<>>
  ELSE IF Len(textBytes) = 1 THEN <<fromCharCode(65533)>>
  ELSE <<fromCharCode(textBytes[1] + 256 * textBytes[2])>>
         \o decodeUnits(SubSeq(textBytes, 3, Len(textBytes)))
decodeUtf16(textBytes) ==
  IF Len(textBytes) >= 2 /\ textBytes[1] = 255 /\ textBytes[2] = 254
  THEN decodeUnits(SubSeq(textBytes, 3, Len(textBytes)))
  ELSE decodeUnits(textBytes)

(* .replace(/\0/g, '') *)
RECURSIVE removeNul(_)
removeNul(s) ==
  IF s = <<>> THEN <<>>
  ELSE (IF s[1] = "<NUL>" THEN <<>> ELSE <<s[1]>>) \o removeNul(Tail(s))

(* fileUtils.ts 86-95; the decoders are not fatal, they do not throw *)
decodeText(encoding, textBytes) ==
  trimChars(removeNul(IF encoding \in {1, 2} THEN decodeUtf16(textBytes)
                      ELSE decodeUtf8(textBytes)))

(* The synchsafe integer (7 bits per byte) and the big-endian integer of   *)
(* the 4 bytes from byte i on                                              *)
synchsafe(b, i) ==
  (b[i + 1] % 128) * 2097152 + (b[i + 2] % 128) * 16384
    + (b[i + 3] % 128) * 128 + (b[i + 4] % 128)
getUint32(b, i) ==
  b[i + 1] * 16777216 + b[i + 2] * 65536 + b[i + 3] * 256 + b[i + 4]

TIT2 == <<84, 73, 84, 50>>
TPE1 == <<84, 80, 69, 49>>

(* An exception inside the try block: the catch of 104-106 is next *)
thrown_uncaught(f) == [f EXCEPT !.pc = "rejected"]
thrown(f) == [f EXCEPT !.pc = "caught"]

(* The file as getTrackMetadata starts on it *)
Start(name, bytes) ==
  [name |-> name, bytes |-> bytes, pc |-> "header",
   version |-> 0, size |-> 0, limit |-> 0, offset |-> 0,
   id3Title |-> UndefinedText, id3Artist |-> UndefinedText,
   reads |-> {}, result |-> [title |-> UndefinedText, artist |-> UndefinedText]]

(* fileUtils.ts 41-51: the magic, the version and the size; getUint8       *)
(* throws a RangeError for a byte the buffer does not have                 *)
header(f) ==
  LET b == f.bytes
      noTag == [f EXCEPT !.pc = "merge"]
  IN  IF Len(b) < 1 THEN thrown(f)
      ELSE IF b[1] # 73 THEN noTag
      ELSE IF Len(b) < 2 THEN thrown(f)
      ELSE IF b[2] # 68 THEN noTag
      ELSE IF Len(b) < 3 THEN thrown(f)
      ELSE IF b[3] # 51 THEN noTag
      ELSE IF Len(b) < 10 THEN thrown(f)
      ELSE LET size == synchsafe(b, 6)
           IN  [f EXCEPT !.pc = "frames", !.version = b[4], !.size = size,
                         !.limit = Min(size + 10, Len(b)), !.offset = 10]

(* fileUtils.ts 53-102: one pass of the loop over the frames.  reads are   *)
(* the bytes the pass reads.                                               *)
frame(f) ==
  LET b      == f.bytes
      offset == f.offset
      limit  == f.limit
      done   == [f EXCEPT !.pc = "merge"]
  IN  IF ~(offset < limit) \/ offset + 10 > limit THEN done
      ELSE IF b[offset + 1] = 0
           THEN [done EXCEPT !.reads = @ \cup offset..(offset + 3)]
      ELSE
        LET frameId   == SubSeq(b, offset + 1, offset + 4)
            raw       == getUint32(b, offset + 4)
            frameSize == IF f.version = 4 /\ raw > f.size
                         THEN synchsafe(b, offset + 4) ELSE raw
            read      == f.reads \cup offset..(offset + 7)
            body      == offset + 10
        IN  IF body + frameSize > limit THEN [done EXCEPT !.reads = read]
            ELSE IF frameId \notin {TIT2, TPE1}
                 THEN [f EXCEPT !.offset = body + frameSize, !.reads = read]
            ELSE IF body >= Len(b)              \* view.getUint8(offset)
                 THEN thrown([f EXCEPT !.reads = read])
            ELSE IF frameSize - 1 < 0           \* new Uint8Array(.., -1)
                 THEN thrown([f EXCEPT !.reads = read \cup {body}])
            ELSE
              LET text == decodeText(b[body + 1],
                                     SubSeq(b, body + 2, body + frameSize))
              IN  [f EXCEPT
                     !.offset = body + frameSize,
                     !.reads = read \cup body..(body + frameSize - 1),
                     !.id3Title = IF frameId = TIT2 /\ Len(text) > 0
                                  THEN text ELSE @,
                     !.id3Artist = IF frameId = TPE1 /\ Len(text) > 0
                                   THEN text ELSE @]

(* filename.replace(/\.[^/.]+$/, ""): the last dot and what follows it go, *)
(* if something follows and no slash is in it                              *)
removeExtension(filename) ==
  LET dots == {i \in DOMAIN filename : filename[i] = "."}
  IN  IF dots = {} THEN filename
      ELSE LET i == CHOOSE d \in dots : \A e \in dots : e <= d
           IN  IF i < Len(filename)
                  /\ \A j \in (i + 1)..Len(filename) : filename[j] # "/"
               THEN SubSeq(filename, 1, i - 1)
               ELSE filename

(* The places where " - " begins in a name *)
separators(name) ==
  {i \in 1..(Len(name) - 2) : SubSeq(name, i, i + 2) = <<" ", "-", " ">>}

(* fileUtils.ts 128-146.  parts[0] is what precedes the first separator,   *)
(* parts.slice(1).join(separator) is what follows it.                      *)
parseMetadataFromFilename_lastSeparator(filename) ==
  LET name == removeExtension(filename)
  IN  IF separators(name) # {}
      THEN LET i == CHOOSE s \in separators(name) :
                      \A t \in separators(name) : s >= t
           IN  [artist |-> trimChars(SubSeq(name, 1, i - 1)),
                title  |-> trimChars(SubSeq(name, i + 3, Len(name)))]
      ELSE [artist |-> UndefinedText, title |-> name]
parseMetadataFromFilename(filename) ==
  LET name == removeExtension(filename)
  IN  IF separators(name) # {}
      THEN LET i == CHOOSE s \in separators(name) :
                      \A t \in separators(name) : s <= t
           IN  [artist |-> trimChars(SubSeq(name, 1, i - 1)),
                title  |-> trimChars(SubSeq(name, i + 3, Len(name)))]
      ELSE [artist |-> UndefinedText, title |-> name]

(* fileUtils.ts 109-124 *)
merge_filenameFirst(f) ==
  LET filenameMetadata == parseMetadataFromFilename(f.name)
      finalTitle  == IF TruthyText(filenameMetadata.title)
                     THEN filenameMetadata.title ELSE f.id3Title
      finalArtist == IF TruthyText(filenameMetadata.artist)
                     THEN filenameMetadata.artist
                     ELSE IF TruthyText(f.id3Artist) THEN f.id3Artist
                     ELSE Unknown
  IN  [title |-> finalTitle, artist |-> finalArtist]
merge(f) ==
  LET filenameMetadata == parseMetadataFromFilename(f.name)
      finalTitle  == IF TruthyText(f.id3Title)
                        /\ Len(trimChars(f.id3Title)) > 0
                     THEN f.id3Title ELSE filenameMetadata.title
      finalArtist == IF TruthyText(f.id3Artist)
                        /\ Len(trimChars(f.id3Artist)) > 0
                     THEN f.id3Artist
                     ELSE IF TruthyText(filenameMetadata.artist)
                          THEN filenameMetadata.artist ELSE Unknown
  IN  [title |-> finalTitle, artist |-> finalArtist]

(* The steps of getTrackMetadata on the file *)
Step(f) ==
  /\ file' = f
  /\ UNCHANGED <<call, status, tracks, apiKey, nextFile, reading, tagging,
                 newTracks, awaiting, orphans, live, batch, runs, budget,
                 editor>>

ReadHeader == file.pc = "header" /\ Step(header(file))
WalkFrame  == file.pc = "frames" /\ Step(frame(file))
Caught     == file.pc = "caught" /\ Step([file EXCEPT !.pc = "merge"])
Merge ==
  /\ file.pc = "merge"
  /\ Step([file EXCEPT !.pc = "resolved", !.result = merge(file)])

(* The frames, tags and buffers that are examined *)
Frame(id, sizeBytes, body) == id \o sizeBytes \o <<0, 0>> \o body
Frames ==
  {Frame(TIT2, <<0, 0, 0, 2>>, <<0, 65>>),              \* TIT2 "A", Latin-1
   Frame(TIT2, <<0, 0, 0, 2>>, <<3, 66>>),              \* TIT2 "B", UTF-8
   Frame(TIT2, <<0, 0, 0, 3>>, <<0, 32, 0>>),           \* TIT2 " \0": empty
   Frame(TIT2, <<0, 0, 0, 0>>, <<>>),                   \* TIT2 of size 0
   Frame(TIT2, <<0, 0, 0, 130>>, <<0, 67>>),            \* size 2 if synchsafe
   Frame(TPE1, <<0, 0, 0, 5>>, <<1, 255, 254, 65, 0>>), \* TPE1 "A", UTF-16
   Frame(TPE1, <<0, 0, 0, 2>>, <<0, 66>>),              \* TPE1 "B"
   Frame(TPE1, <<0, 0, 0, 0>>, <<>>),                   \* TPE1 of size 0
   Frame(<<84, 65, 76, 66>>, <<0, 0, 0, 2>>, <<0, 65>>),\* TALB "A"
   <<0, 0, 0, 0, 0, 0, 0, 0, 0, 0>>}                    \* padding

RECURSIVE concat(_)
concat(ss) == IF ss = <<>> THEN <<>> ELSE ss[1] \o concat(Tail(ss))

(* "ID3", version, revision, flags and the synchsafe size *)
ID3Header(version, size) ==
  <<73, 68, 51, version, 0, 0, 0, 0, size \div 128, size % 128>>

(* What follows the tag in the buffer: nothing, or audio data *)
Tails == {<<>>, <<255, 251, 84, 73, 84, 50>>}

(* The tags of up to n frames; the declared size is that of the frames or  *)
(* reaches beyond the buffer                                               *)
Tagged(n) ==
  {ID3Header(version, Len(frames) + more) \o frames \o tail :
     version \in {3, 4},
     frames \in {concat(fs) : fs \in UNION {[1..k -> Frames] : k \in 0..n}},
     more \in {0, 100},
     tail \in Tails}

(* The buffers without a tag: shorter than the header, or other data *)
Untagged ==
  {<<>>, <<73>>, <<73, 68>>, <<73, 68, 51>>, <<73, 68, 51, 3, 0, 0, 0, 0, 0>>,
   <<82, 73, 70, 70, 0, 0, 0, 0, 87, 65, 86, 69>>, <<73, 68, 52, 3, 0>>}

FileNames ==
  {<<"A", "r", "t", "i", "s", "t", " ", "-", " ", "S", "o", "n", "g", ".", "m", "p", "3">>,
   <<"S", "o", "n", "g", ".", "m", "p", "3">>,
   <<"A", "r", "t", "i", "s", "t", " ", "-", " ", ".", "m", "p", "3">>,
   <<".", "m", "p", "3">>,
   <<" ", "-", " ", "S", "o", "n", "g", ".", "m", "p", "3">>,
   <<"A", " ", "-", " ", "B", " ", "-", " ", "C", ".", "w", "a", "v">>,
   <<"s", "o", "n", "g">>,
   <<"A", "b", " ", " ", "-", " ", " ", "C", "d", ".", "m", "p", "3">>}

(* The files: every buffer under one name, every name on three buffers *)
Files(n) ==
  {Start(<<"A", "r", "t", "i", "s", "t", " ", "-", " ", "S", "o", "n", "g", ".", "m", "p", "3">>, bytes) : bytes \in Tagged(n) \cup Untagged}
  \cup {Start(name, bytes) :
          name \in FileNames,
          bytes \in {<<>>,
                     ID3Header(3, 12) \o Frame(TIT2, <<0, 0, 0, 2>>, <<0, 65>>),
                     ID3Header(3, 12) \o Frame(TPE1, <<0, 0, 0, 2>>, <<0, 66>>)}}

(* getTrackMetadata on a file that handleFilesSelect has read (App.tsx 60) *)
InitTags ==
  /\ status = "PROCESSING_AUDIO"
  /\ tracks = <<>>
  /\ apiKey = TRUE
  /\ nextFile = 1
  /\ reading = {}
  /\ tagging = {1}
  /\ newTracks = <<>>
  /\ awaiting = TRUE
  /\ orphans = {}
  /\ live = {1}
  /\ batch = NoBatch
  /\ runs = EmptyBag
  /\ budget = 0
  /\ editor = NoEditor
  /\ file \in Files(MaxFrames)
  /\ call = NoCall

NextTags == ReadHeader \/ WalkFrame \/ Caught \/ Merge

SpecTags == InitTags /\ [][NextTags]_vars

(***************************************************************************)
(* WAV encoding (utils/audioProcessing.ts).  A sample is a number of       *)
(* quarters: the float sample is q / 4.                                    *)
(***************************************************************************)
Quarter == 4
SampleValues == <<0, 4, -4, 2, -2, 1, -1, 6, -8>>

(* Math.max(-1, Math.min(1, sample)) *)
clamp(q) == Max(-Quarter, Min(Quarter, q))

(* x | 0 for a quotient a / b: the fraction is dropped *)
truncate(a, b) == IF a >= 0 THEN a \div b ELSE -((-a) \div b)

(* (0.5 + sample < 0 ? sample * 32768 : sample * 32767) | 0 *)
scale(q) ==
  truncate(IF 2 + q < 0 THEN q * 32768 ELSE q * 32767, Quarter)

(* DataView.setUint16, setInt16 and setUint32, little-endian *)
setUint16(data) == <<data % 256, (data \div 256) % 256>>
setInt16(data) == setUint16(data % 65536)
setUint32(data) ==
  <<data % 256, (data \div 256) % 256, (data \div 65536) % 256,
    (data \div 16777216) % 256>>

(* audioProcessing.ts 15-29: the header, as the 13 calls write it *)
wavHeader(numOfChan, sampleRate, length) ==
  setUint32(1179011410)                    \* "RIFF"
    \o setUint32(length - 8)
    \o setUint32(1163280727)               \* "WAVE"
    \o setUint32(544501094)                \* "fmt "
    \o setUint32(16)
    \o setUint16(1)
    \o setUint16(numOfChan)
    \o setUint32(sampleRate)
    \o setUint32(sampleRate * 2 * numOfChan)
    \o setUint16(numOfChan * 2)
    \o setUint16(16)
    \o setUint32(1635017060)               \* "data"
    \o setUint32(length - 40 - 4)

(* bufferToWav(abuffer, len) is entered (3-12); the rendered buffer has    *)
(* one channel (67-71) and len is its length (106)                         *)
bufferToWav(samples, sampleRate) ==
  [pc |-> "header", samples |-> samples, sampleRate |-> sampleRate,
   len |-> Len(samples), numOfChan |-> 1,
   length |-> Len(samples) * 1 * 2 + 44,
   view |-> [i \in 1..(Len(samples) * 2 + 44) |-> 0], pos |-> 0, offset |-> 0]

(* 15-33: the header is written, pos is 44 afterwards *)
writeHeader(c) ==
  [c EXCEPT !.pc = "samples",
            !.view = wavHeader(c.numOfChan, c.sampleRate, c.length)
                       \o SubSeq(c.view, 45, Len(c.view)),
            !.pos = 44]

(* 35-44: one pass of the while loop, for the one channel *)
writeSample(c) ==
  LET sample == scale(clamp(c.samples[c.pos + 1]))
      at     == 44 + c.offset
      bytes  == setInt16(sample)
  IN  [c EXCEPT !.view = [@ EXCEPT ![at + 1] = bytes[1], ![at + 2] = bytes[2]],
                !.offset = @ + 2,
                !.pos = @ + 1]

Returns(c) ==
  /\ call' = c
  /\ UNCHANGED <<status, tracks, apiKey, nextFile, reading, tagging,
                 newTracks, awaiting, orphans, live, batch, runs, budget,
                 editor, file>>

WriteHeader == call.pc = "header" /\ Returns(writeHeader(call))
WriteSample ==
  call.pc = "samples" /\ call.pos < call.len /\ Returns(writeSample(call))
ReturnBlob ==
  /\ call.pc = "samples" /\ ~(call.pos < call.len)
  /\ Returns([call EXCEPT !.pc = "returned"])

(* The rendered buffers: n samples that run through SampleValues from one  *)
(* of them on, at one of two sample rates                                  *)
Rendered(n, from) ==
  [k \in 1..n |-> SampleValues[((k + from) % Len(SampleValues)) + 1]]

(* A session whose one track is being isolated (App.tsx 159-161) *)
Isolating ==
  LET st == handleGenerateAll(
              [tracks |-> handleToggleIsolation(<<NewTrack(1)>>, 1),
               runs |-> EmptyBag, batch |-> NoBatch,
               status |-> "CONFIGURATION"])
  IN  /\ tracks = st.tracks
      /\ runs = st.runs
      /\ batch = st.batch
      /\ status = st.status
      /\ apiKey = TRUE
      /\ nextFile = 1
      /\ reading = {}
      /\ tagging = {}
      /\ newTracks = <<>>
      /\ awaiting = FALSE
      /\ orphans = {}
      /\ live = {1}
      /\ budget = 0
      /\ editor = NoEditor
      /\ file = NoFile

InitWav ==
  /\ Isolating
  /\ \E n \in 0..MaxSamples, from \in 1..Len(SampleValues),
        sampleRate \in {8000, 44100} :
       call = bufferToWav(Rendered(n, from), sampleRate)

NextWav == WriteHeader \/ WriteSample \/ ReturnBlob

SpecWav == InitWav /\ [][NextWav]_vars

(***************************************************************************)
(* Bulk LRC matching (components/ConfigurationStep.tsx 81-141)             *)
(***************************************************************************)

(* String.prototype.toLowerCase, on the letters A to Z *)
toLowerCase(s) ==
  [i \in DOMAIN s |->
     IF \E k \in 34..59 : Printable[k] = s[i]
     THEN Printable[(CHOOSE k \in 34..59 : Printable[k] = s[i]) + 32]
     ELSE s[i]]

(* String.prototype.includes and startsWith *)
includes(s, sub) ==
  \E i \in 0..(Len(s) - Len(sub)) : SubSeq(s, i + 1, i + Len(sub)) = sub
startsWith(s, sub) == Len(sub) <= Len(s) /\ SubSeq(s, 1, Len(sub)) = sub

(* file.name.replace(/\.[^/.]+$/, "").toLowerCase().trim() *)
stem(filename) == trimChars(toLowerCase(removeExtension(filename)))

\* content.match(/\[ti:(.*?)\]/i) and /\[ar:(.*?)\]/i: group 1 of the first
\* place where the tag opens and a bracket closes it on the same line,
\* trimmed and in lower case; null (here NoTag) without a match
NoTag == <<"<null>">>
tagValue(content, tag) ==
  LET open == <<"[">> \o tag \o <<":">>
      closes(i) == {j \in (i + 4)..Len(content) :
                      /\ content[j] = "]"
                      /\ \A k \in (i + 4)..(j - 1) :
                           content[k] \notin LineTerminators}
      opens == {i \in 1..(Len(content) - 3) :
                  /\ toLowerCase(SubSeq(content, i, i + 3)) = open
                  /\ closes(i) # {}}
  IN  IF opens = {} THEN NoTag
      ELSE LET i == CHOOSE a \in opens : \A b \in opens : a <= b
               j == CHOOSE a \in closes(i) : \A b \in closes(i) : a <= b
           IN  toLowerCase(trimChars(SubSeq(content, i + 4, j - 1)))

(* The test of tracks.find (103-117) *)
matches(t, lrcFile) ==
  LET lrcName   == stem(lrcFile.name)
      lrcTitle  == tagValue(lrcFile.content, <<"t", "i">>)
      lrcArtist == tagValue(lrcFile.content, <<"a", "r">>)
      trackName == stem(t.name)
  IN  \/ trackName = lrcName
      \/ lrcTitle # NoTag /\ Len(lrcTitle) > 3 /\ includes(trackName, lrcTitle)
      \/ lrcArtist # NoTag /\ Len(lrcArtist) > 3
           /\ startsWith(trackName, lrcArtist)

(* tracks.find: the first track of the list that passes the test *)
find(ts, lrcFile) ==
  LET found == {i \in DOMAIN ts : matches(ts[i], lrcFile)}
  IN  IF found = {} THEN <<>>
      ELSE <<ts[CHOOSE i \in found : \A j \in found : i <= j]>>

(* handleBulkLrcUpload is called with a list of files (81-89) *)
handleBulkLrcUpload(names, fileList) ==
  [pc |-> "reading", tracks |-> [i \in DOMAIN names |-> [id |-> i, name |-> names[i]]],
   fileList |-> fileList, unread |-> DOMAIN fileList, updates |-> <<>>,
   processedCount |-> 0]

(* reader.onload of file i (91-137); the last one hands the updates to     *)
(* handleBulkUploadLrc of the application                                  *)
ReaderLoaded(i) ==
  /\ call.pc = "reading"
  /\ i \in call.unread
  /\ LET lrcFile == call.fileList[i]
         track   == find(call.tracks, lrcFile)
         updates == IF track # <<>>
                    THEN Append(call.updates, [id |-> track[1].id,
                                               content |-> lrcFile.content])
                    ELSE call.updates
         last    == call.processedCount + 1 = Len(call.fileList)
     IN  /\ call' = [call EXCEPT
                       !.unread = @ \ {i},
                       !.updates = updates,
                       !.processedCount = @ + 1,
                       !.pc = IF ~last THEN "reading"
                              ELSE IF Len(updates) > 0 THEN "matched"
                              ELSE "unmatched"]
         /\ tracks' = IF last /\ Len(updates) > 0
                      THEN handleBulkUploadLrc(tracks, updates) ELSE tracks
  /\ UNCHANGED <<status, apiKey, nextFile, reading, tagging, newTracks,
                 awaiting, orphans, live, batch, runs, budget, editor, file>>

(* The track file names and the LRC files that are examined *)
TrackNames ==
  {<<"m", "y", " ", "s", "o", "n", "g", " ", "l", "i", "v", "e", ".", "m", "p", "3">>,
   <<"S", "o", "n", "g", ".", "m", "p", "3">>,
   <<"B", "a", "n", "d", " ", "-", " ", "T", "u", "n", "e", ".", "w", "a", "v">>,
   <<"o", "t", "h", "e", "r", ".", "m", "p", "3">>}
LrcFiles ==
  {[name |-> <<"s", "o", "n", "g", ".", "l", "r", "c">>,
    content |-> <<"[", "t", "i", ":", "S", "o", "n", "g", "]", "\n", "[", "0", "0", ":", "0", "1", ".", "0", "0", "]", " ", "l", "a">>],
   [name |-> <<"a", ".", "l", "r", "c">>,
    content |-> <<"[", "T", "I", ":", " ", "T", "u", "n", "e", " ", "]">>],
   [name |-> <<"b", ".", "l", "r", "c">>,
    content |-> <<"[", "0", "0", ":", "0", "1", ".", "0", "0", "]", " ", "l", "a", "\n", "[", "a", "r", ":", "B", "a", "n", "d", "]">>],
   [name |-> <<"c", ".", "l", "r", "c">>,
    content |-> <<"[", "t", "i", ":", "l", "i", "v", "]", "[", "a", "r", ":", "m", "y", "]">>],
   [name |-> <<"O", "T", "H", "E", "R", ".", "L", "R", "C">>,
    content |-> <<"l", "a">>],
   [name |-> <<"n", "o", "n", "e", ".", "t", "x", "t">>,
    content |-> <<>>]}

(* The lists of 1 to n different elements of a set *)
Lists(S, n) ==
  UNION {{l \in [1..k -> S] : \A i, j \in 1..k : l[i] = l[j] => i = j} :
           k \in 1..n}

(* The configuration screen with up to BulkTracks tracks, on which up to   *)
(* BulkFiles LRC files are uploaded at once                                *)
InitBulk ==
  /\ \E names \in Lists(TrackNames, BulkTracks),
        fileList \in Lists(LrcFiles, BulkFiles) :
       /\ Ingested(Len(names))
       /\ call = handleBulkLrcUpload(names, fileList)
  /\ apiKey = TRUE
  /\ budget = 0
  /\ editor = NoEditor
  /\ file = NoFile

NextBulk == \E i \in call.unread : ReaderLoaded(i)

SpecBulk == InitBulk /\ [][NextBulk]_vars

(***************************************************************************)
(* Archive export (App.tsx 254-264, utils/fileUtils.ts 162-181)            *)
(***************************************************************************)

(* zip.file(name, content): JSZip keeps one entry per name, a second file  *)
(* of the same name takes the place of the first                           *)
zipFile(zip, name, content) ==
  IF \E i \in DOMAIN zip : zip[i].name = name
  THEN [i \in DOMAIN zip |-> IF zip[i].name = name
                             THEN [name |-> name, content |-> content]
                             ELSE zip[i]]
  ELSE Append(zip, [name |-> name, content |-> content])

(* file.filename.replace(/\.[^/.]+$/, "") + ".lrc" *)
entryName(filename) == removeExtension(filename) \o <<".", "l", "r", "c">>

(* tracks.filter(t => t.status === 'COMPLETED' && t.lrcContent) *)
isExported(t) == t.status = "COMPLETED" /\ Truthy(t.lrcContent)

(* App.tsx 254-264: the files handed to downloadAsZip; names gives the     *)
(* file name of each track                                                 *)
handleDownloadAll(ts, names) ==
  LET completedTracks == FilterTracks(ts, isExported)
  IN  IF Len(completedTracks) = 0
      THEN [pc |-> "returned", names |-> names, files |-> <<>>, zip |-> <<>>]
      ELSE [pc |-> "zipping", names |-> names,
            files |-> [i \in DOMAIN completedTracks |->
                         [filename |-> names[completedTracks[i].id],
                          content  |-> completedTracks[i].lrcContent]],
            zip |-> <<>>]

Zips(c) ==
  /\ call' = c
  /\ UNCHANGED <<status, tracks, apiKey, nextFile, reading, tagging,
                 newTracks, awaiting, orphans, live, batch, runs, budget,
                 editor, file>>

(* The "download all" button of the result screen *)
HandleDownloadAll ==
  call.pc = "ready" /\ Zips(handleDownloadAll(tracks, call.names))

(* fileUtils.ts 165-168: one pass of files.forEach *)
ZipFile ==
  /\ call.pc = "zipping"
  /\ call.files # <<>>
  /\ LET f == Head(call.files)
     IN  Zips([call EXCEPT !.files = Tail(@),
                           !.zip = zipFile(@, entryName(f.filename), f.content)])

(* fileUtils.ts 170-180: the archive is generated and downloaded *)
GenerateDone ==
  /\ call.pc = "zipping"
  /\ call.files = <<>>
  /\ Zips([call EXCEPT !.pc = "downloaded"])

(* The states in which a track can be on the result screen *)
Finished(id) ==
  {[NewTrack(id) EXCEPT !.status = "COMPLETED", !.lrcContent = GenLrc],
   [NewTrack(id) EXCEPT !.status = "COMPLETED", !.lrcContent = UserLrc],
   [NewTrack(id) EXCEPT !.status = "COMPLETED", !.lrcContent = ""],
   [NewTrack(id) EXCEPT !.status = "ERROR", !.error = "rate limited"]}

ExportNames ==
  {<<"s", "o", "n", "g", ".", "m", "p", "3">>,
   <<"s", "o", "n", "g", ".", "w", "a", "v">>,
   <<"o", "t", "h", "e", "r", ".", "m", "p", "3">>}

(* The result screen with up to ZipTracks finished tracks *)
InitZip ==
  /\ \E n \in 1..ZipTracks :
       /\ tracks \in {ts \in [1..n -> UNION {Finished(id) : id \in 1..n}] :
                        \A i \in 1..n : ts[i].id = i}
       /\ \E names \in [1..n -> ExportNames] :
            call = [pc |-> "ready", names |-> names, files |-> <<>>, zip |-> <<>>]
       /\ nextFile = n
       /\ live = 1..n
  /\ status = "COMPLETED"
  /\ apiKey = TRUE
  /\ reading = {}
  /\ tagging = {}
  /\ newTracks = <<>>
  /\ awaiting = FALSE
  /\ orphans = {}
  /\ batch = NoBatch
  /\ runs = EmptyBag
  /\ budget = 0
  /\ editor = NoEditor
  /\ file = NoFile

NextZip == HandleDownloadAll \/ ZipFile \/ GenerateDone

SpecZip == InitZip /\ [][NextZip]_vars





----------------------------------------------------------------------------
(* Properties *)

InFlight(t) == t.status \in {"ISOLATING", "GENERATING"}
Idle(t) == t.status \in {"PENDING", "ERROR", "COMPLETED"}
Present(ts, id) == id \in Ids(ts)
Tracks == {tracks[i] : i \in DOMAIN tracks}
Runs == BagToSet(runs)

(* C1: in every reachable state a track is COMPLETED if and only if its    *)
(* lrcContent is set and non-empty and its error is unset, and it is ERROR *)
(* if and only if its error is set.                                        *)
C1_StatusConsistent ==
  \A t \in Tracks :
    /\ t.status = "COMPLETED" <=> (Truthy(t.lrcContent) /\ t.error = Undef)
    /\ t.status = "ERROR" <=> t.error # Undef

Range(sq) == {sq[i] : i \in DOMAIN sq}
IdsOf(sq) == [i \in DOMAIN sq |-> sq[i].id]

(* The tracks of the current batch that are in flight *)
BatchInFlight ==
  Cardinality({i \in DOMAIN tracks :
                 tracks[i].id \in Range(batch.pending) /\ InFlight(tracks[i])})

(* C2: a batch of N pending tracks starts exactly min(3, N) workers; while *)
(* it runs at most 3 of its tracks are ISOLATING or GENERATING, and with 5 *)
(* or more pending tracks exactly 3 are until the queue is empty.          *)
C2_WorkerPool ==
  /\ batch.workers = Min(3, Len(batch.pending))
  /\ batch.active <= 3
  /\ batch.active > 0 => BatchInFlight <= 3
  /\ (batch.active > 0 /\ Len(batch.pending) >= 5 /\ Len(batch.queue) > 0)
       => BatchInFlight = 3

(* The errors a pipeline can fail with *)
Errors == IsolationErrors \cup ServiceErrors \cup {NoTextError, NoKeyError}

(* A step in which the pipeline of run r fails with error e: isolation     *)
(* rejects, or generateLrcFromAudio throws (no key, a terminal error, or   *)
(* the last attempt failed).                                               *)
Fails(r, e) ==
  \/ e \in IsolationErrors /\ IsolationFailed(r, e)
  \/ /\ e \in ServiceErrors
     /\ isTerminal(e) \/ r.attempt = MAX_RETRIES
     /\ ServiceThrew(r, e)
  \/ /\ e = NoTextError
     /\ r.attempt = MAX_RETRIES
     /\ \E text \in ServiceTexts : ~Truthy(text) /\ ServiceReturned(r, text)
  \/ e = NoKeyError /\ KeyMissing(r)

(* The effect the failure of batch run r with error e may have: track r.id *)
(* is ERROR with the message, the worker takes the head of the queue (that *)
(* track starts, a run for it appears) or retires, no other track changes  *)
(* and no other run ends.                                                  *)
OnlyThatTrackFails(r, e) ==
  LET next == IF batch.queue = <<>> THEN 0 ELSE Head(batch.queue).id
      message == IF e.message \in {Undef, ""} THEN "Generation Failed" ELSE e.message
  IN  /\ DOMAIN tracks' = DOMAIN tracks
      /\ \A i \in DOMAIN tracks :
           IF tracks[i].id = r.id
             THEN tracks'[i] = [tracks[i] EXCEPT !.status = "ERROR", !.error = message]
           ELSE IF tracks[i].id = next
             THEN /\ InFlight(tracks'[i])
                  /\ tracks'[i] = [tracks[i] EXCEPT !.status = tracks'[i].status,
                                                    !.error = Undef]
           ELSE tracks'[i] = tracks[i]
      /\ IF batch.queue # <<>>
           THEN /\ batch' = [batch EXCEPT !.queue = Tail(@), !.started = Append(@, next)]
                /\ \E r2 \in BagToSet(runs') :
                     /\ r2.id = next
                     /\ r2.kind = "batch"
                     /\ CopiesIn(r2, runs') = CopiesIn(r2, runs) + 1
           ELSE batch' = [batch EXCEPT !.active = @ - 1]
      /\ \A r2 \in Runs : r2 # r => CopiesIn(r2, runs') >= CopiesIn(r2, runs)

(* C3: when the pipeline of one track of a batch fails, only that track is *)
(* set to ERROR with the failure message and the worker goes on to the     *)
(* next queued track; the step changes no other track and ends no other    *)
(* run, so the other tracks proceed as they would have.                    *)
C3_FailureIsolated ==
  [][\A r \in Runs, e \in Errors :
       (r.kind = "batch" /\ Fails(r, e)) => OnlyThatTrackFails(r, e)]_vars

(* A finished batch of more than 3 tracks in which one track failed at the *)
(* service and another completed.                                          *)
C3_Witness ==
  /\ status = "COMPLETED"
  /\ batch.active = 0
  /\ Len(batch.pending) > 3
  /\ \E t \in Tracks : t.id \in Range(batch.pending) /\ t.status = "ERROR"
                         /\ t.error = "bad request"
  /\ \E t \in Tracks : t.id \in Range(batch.pending) /\ t.status = "COMPLETED"

(* The tracks a batch has to process: neither COMPLETED nor carrying LRC   *)
(* text that is non-empty after trimming.                                  *)
Eligible(t) ==
  /\ ~(t.status = "COMPLETED")
  /\ ~(t.lrcContent # Undef /\ Trim(t.lrcContent) # "")

BatchRuns == {r \in Runs : r.kind = "batch"}

(* The dequeued tracks are a prefix of the eligible ones, the queue holds  *)
(* the rest, every run of the batch is the only run of a dequeued track,   *)
(* and a finished batch has dequeued them all.                             *)
DequeuedInOrder ==
  /\ Len(batch.started) <= Len(batch.pending)
  /\ batch.started = SubSeq(batch.pending, 1, Len(batch.started))
  /\ IdsOf(batch.queue) = SubSeq(batch.pending, Len(batch.started) + 1, Len(batch.pending))
  /\ \A i, j \in DOMAIN batch.pending : batch.pending[i] = batch.pending[j] => i = j
  /\ \A r \in BatchRuns : r.id \in Range(batch.started) /\ CopiesIn(r, runs) = 1
  /\ \A r1, r2 \in BatchRuns : r1.id = r2.id => r1 = r2
  /\ Cardinality(BatchRuns) <= batch.active
  /\ batch.active = 0 => batch.started = batch.pending

(* handleGenerateAll queues exactly the eligible tracks, in collection     *)
(* order, and starts the first min(3, N) of them.                          *)
QueuesEligible ==
  LET eligible == IdsOf(SelectSeq(tracks, Eligible))
  IN  IF eligible = <<>>
        THEN batch' = batch /\ runs' = runs /\ tracks' = tracks
        ELSE /\ batch'.pending = eligible
             /\ batch'.started = SubSeq(eligible, 1, Min(3, Len(eligible)))
             /\ \A id \in Range(batch'.started) :
                  \E r \in BagToSet(runs') :
                    r.id = id /\ r.kind = "batch" /\ CopiesIn(r, runs') = CopiesIn(r, runs) + 1

(* C4: a batch runs the pipeline exactly once, in collection order of      *)
(* dequeuing, on each track that at batch start is neither COMPLETED nor   *)
(* carrying non-empty (after trimming) lrcContent, and on no other track;  *)
(* no track is dequeued twice.                                             *)
C4_BatchExactlyOnce ==
  /\ []DequeuedInOrder
  /\ [][HandleGenerateAll => QueuesEligible]_vars

(* A finished batch that skipped a track and processed at least three *)
C4_Witness ==
  /\ batch.active = 0
  /\ Len(batch.pending) >= 3
  /\ batch.started = batch.pending
  /\ \E t \in Tracks : t.id \notin Range(batch.pending) /\ t.lrcContent = UserLrc

(* The steps of the pipeline: its start by a batch or a retry, and every   *)
(* resumption of a suspended processTrack.                                 *)
PipelineStep ==
  \/ HandleGenerateAll
  \/ \E id \in Ids(tracks) : HandleRetry(id)
  \/ Pipeline

(* The status changes the pipeline may make to a track *)
AllowedChange(t, u) ==
  \/ Idle(t) /\ u.status = (IF t.useIsolation THEN "ISOLATING" ELSE "GENERATING")
  \/ t.status = "ISOLATING" /\ u.status = "GENERATING"
  \/ t.status = "GENERATING" /\ u.status = "COMPLETED"
  \/ InFlight(t) /\ u.status = "ERROR"

(* C5: every change of a track's status made by the pipeline is idle to    *)
(* ISOLATING (isolation enabled) or to GENERATING (not enabled), ISOLATING *)
(* to GENERATING, GENERATING to COMPLETED, or ISOLATING/GENERATING to      *)
(* ERROR, whatever the user does to the track in between.                  *)
C5_PipelineTransitions ==
  [][PipelineStep =>
       \A i \in DOMAIN tracks :
         (i \in DOMAIN tracks' /\ tracks'[i].status # tracks[i].status)
           => AllowedChange(tracks[i], tracks'[i])]_vars

(* A run that has called generateLrcFromAudio *)
Called(r) == r.pc \in {"generating", "backoff", "rejected"}

(* The arguments of the call are the isolation output and 'audio/wav' for  *)
(* a run with isolation, the track's own payload and MIME type otherwise;  *)
(* a run that waits for isolateVocals has not replaced them.               *)
PayloadOfCall ==
  \A r \in Runs :
    /\ (Called(r) /\ r.useIsolation)
         => r.finalBase64 = "processedBase64" /\ r.finalMimeType = "audio/wav"
    /\ (Called(r) /\ ~r.useIsolation)
         => r.finalBase64 = "track.base64" /\ r.finalMimeType = "track.mimeType"
    /\ r.pc = "isolating"
         => /\ r.useIsolation
            /\ r.finalBase64 = "track.base64" /\ r.finalMimeType = "track.mimeType"

(* A run with isolation makes its call only in the step in which its       *)
(* isolateVocals resolves, and makes none when isolateVocals rejects.      *)
CallAfterIsolation ==
  /\ \A r2 \in BagToSet(runs') :
       (/\ Called(r2) /\ r2.attempt = 0 /\ r2.pc # "backoff"
        /\ r2.useIsolation
        /\ CopiesIn(r2, runs') > CopiesIn(r2, runs))
         => \E r \in Runs : /\ r.pc = "isolating"
                            /\ r.id = r2.id /\ r.kind = r2.kind
                            /\ IsolationDone(r)
  /\ \A r \in Runs, e \in IsolationErrors :
       IsolationFailed(r, e)
         => \A r2 \in BagToSet(runs') :
              (Called(r2) /\ r2.id = r.id) => CopiesIn(r2, runs') <= CopiesIn(r2, runs)

(* C6: with isolation enabled the service is called only after             *)
(* isolateVocals has completed, with its output and 'audio/wav'; if        *)
(* isolation fails it is not called in that run; without isolation it is   *)
(* called with the track's original payload and MIME type.                 *)
C6_IsolationPrecedesGeneration ==
  /\ []PayloadOfCall
  /\ [][CallAfterIsolation]_vars

(* A run with isolation whose request is with the service *)
C6_Witness ==
  \E r \in Runs : r.pc = "generating" /\ r.useIsolation

(* The collection after a retry of track id: that track has no error and   *)
(* is ISOLATING or GENERATING, every other track is as it was.             *)
RetryEffect(id) ==
  /\ DOMAIN tracks' = DOMAIN tracks
  /\ \A i \in DOMAIN tracks :
       IF tracks[i].id = id
         THEN /\ tracks'[i].error = Undef
              /\ tracks'[i].status = (IF tracks[i].useIsolation THEN "ISOLATING"
                                                                ELSE "GENERATING")
              /\ tracks'[i] = [tracks[i] EXCEPT !.status = tracks'[i].status,
                                                !.error = Undef]
         ELSE tracks'[i] = tracks[i]
  /\ \E r \in BagToSet(runs') :
       r.id = id /\ r.kind = "retry" /\ CopiesIn(r, runs') = CopiesIn(r, runs) + 1

(* The ids that name no track of the collection *)
MissingIds == (0..(nextFile + 1)) \ Ids(tracks)

(* C7: handleRetry(id) on an existing track clears that track's error and  *)
(* puts it in ISOLATING or GENERATING before any suspension, and changes   *)
(* no field of any other track; for an id not in the collection it does    *)
(* nothing.                                                                *)
C7_RetryFrame ==
  /\ [][\A id \in Ids(tracks) : HandleRetry(id) => RetryEffect(id)]_vars
  /\ [](\A id \in MissingIds : handleRetry(St, id) = St)

(* A retried track in flight next to another track *)
C7_Witness ==
  /\ Len(tracks) >= 2
  /\ \E r \in Runs : r.kind = "retry" /\ r.id \in Ids(tracks)
                       /\ InFlight(TrackOf(tracks, r.id))

(* The resumptions of run r *)
Resumes(r) ==
  \/ IsolationDone(r)
  \/ \E e \in IsolationErrors : IsolationFailed(r, e)
  \/ \E text \in ServiceTexts : ServiceReturned(r, text)
  \/ \E e \in ServiceErrors : ServiceThrew(r, e)
  \/ BackoffDone(r)
  \/ KeyMissing(r)

(* C8: once a track has been removed, every later update of its pipeline   *)
(* is inert: the collection never again contains a track with that id and  *)
(* the update changes no other track.                                      *)
C8_RemovedTrackInert ==
  /\ [][\A id \in 1..nextFile : id \notin Ids(tracks) => id \notin Ids(tracks')]_vars
  /\ [][\A r \in Runs : (r.id \notin Ids(tracks) /\ Resumes(r)) => tracks' = tracks]_vars

(* A pipeline in flight whose track has been removed while another remains *)
C8_Witness ==
  /\ Len(tracks) > 0
  /\ \E r \in Runs : r.id \notin Ids(tracks) /\ r.pc = "generating"

(* C9: after handleRemoveTrack(id) the preview URL of track id is revoked, *)
(* and after handleReset no URL created in the session is left unrevoked,  *)
(* those of a failed ingestion included.                                   *)
C9_PreviewUrlsReleased ==
  /\ [][\A id \in Ids(tracks) :
          HandleRemoveTrack(id) => TrackOf(tracks, id).previewUrl \notin live']_vars
  /\ [][HandleReset => live' = {}]_vars

(* The attempts are numbered from 0: a run at attempt k is making (or has  *)
(* made) its (k+1)-th request.                                             *)
Attempts(r) == r.attempt + 1

(* At most MAX_RETRIES requests in one call *)
C10_AtMostMaxRetriesAttempts ==
  \A r \in Runs : r.pc \in {"generating", "backoff"} => Attempts(r) <= MAX_RETRIES

(* What one resumption of run r in generateLrcFromAudio does *)
RetryLoopStep(r) ==
  LET track == TrackOf(tracks, r.id)
      trackAfter == TrackOf(tracks', r.id)
      Continued(pc, attempt) ==
        \E r2 \in BagToSet(runs') :
          /\ r2.id = r.id /\ r2.kind = r.kind
          /\ r2.pc = pc /\ r2.attempt = attempt
          /\ CopiesIn(r2, runs') > CopiesIn(r2, runs)
      Ended ==
        \A r2 \in BagToSet(runs') :
          (r2.id = r.id /\ r2.kind = r.kind /\ r2.pc \in {"generating", "backoff"})
            => CopiesIn(r2, runs') <= CopiesIn(r2, runs)
  IN  /\ \A text \in ServiceTexts :
           (ServiceReturned(r, text) /\ Truthy(text))
             => /\ Ended
                /\ trackAfter.status = "COMPLETED"
                /\ trackAfter.lrcContent = cleanText(text)
      /\ \A e \in ServiceErrors \cup {NoTextError} :
           (\/ ServiceThrew(r, e)
            \/ e = NoTextError /\ \E text \in ServiceTexts :
                                    ~Truthy(text) /\ ServiceReturned(r, text))
             => IF e.status \in {400, 401, 403, 404} \/ Attempts(r) = 4
                  THEN /\ Ended
                       /\ trackAfter.status = "ERROR"
                       /\ trackAfter.error = e.message
                  ELSE /\ Continued("backoff", r.attempt)
                       /\ trackAfter = track
      /\ BackoffDone(r) => Continued("generating", r.attempt + 1) /\ trackAfter = track

(* A request other than the first is sent only when a backoff wait ends *)
BackoffBetweenAttempts ==
  \A r2 \in BagToSet(runs') :
    (r2.pc = "generating" /\ r2.attempt > 0 /\ CopiesIn(r2, runs') > CopiesIn(r2, runs))
      => \E r \in Runs : /\ r.pc = "backoff" /\ r.attempt = r2.attempt - 1
                         /\ r.id = r2.id /\ r.kind = r2.kind
                         /\ BackoffDone(r)

(* C10: one call of generateLrcFromAudio makes at most 4 requests (the     *)
(* first and MAX_RETRIES = 3 retries), waits a backoff delay between       *)
(* consecutive requests, returns on the first success, and when every      *)
(* request fails with a non-terminal error throws the error of the last    *)
(* one, which becomes the track's ERROR.                                   *)
C10_RetryLoop ==
  /\ [](\A r \in Runs : r.pc \in {"generating", "backoff"} => Attempts(r) <= 4)
  /\ [][BackoffBetweenAttempts]_vars
  /\ [][\A r \in Runs : r.id \in Ids(tracks) => RetryLoopStep(r)]_vars

(* A track whose call failed four times with a retryable error *)
C10_Witness ==
  \E t \in Tracks : t.status = "ERROR" /\ t.error = "rate limited"

(* The status codes that end the retry loop *)
ClientErrorStatus == {400, 401, 403, 404}

(* The failure of one attempt of run r with error e *)
AttemptFails(r, e) ==
  \/ e \in StatusErrors /\ ServiceThrew(r, e)
  \/ /\ e = NoTextError
     /\ \E text \in ServiceTexts : ~Truthy(text) /\ ServiceReturned(r, text)

(* The call of run r has thrown e: the run is over and its track is ERROR  *)
(* with the message of e.                                                  *)
Thrown(r, e) ==
  /\ \A r2 \in BagToSet(runs') : r2.id # r.id
  /\ TrackOf(tracks', r.id).status = "ERROR"
  /\ TrackOf(tracks', r.id).error = e.message

(* The call of run r waits for its backoff delay, having made no further   *)
(* request, and its track is as it was.                                    *)
WaitsToRetry(r, e) ==
  /\ BagToSet(runs') = {[r EXCEPT !.pc = "backoff", !.lastError = e]}
  /\ tracks' = tracks

(* C11: a failed attempt with status 400, 401, 403 or 404 is terminal (no  *)
(* further attempt, no backoff, that error is thrown); a failed attempt    *)
(* with any other status or none (429 and an empty response included) is   *)
(* followed by a backoff and another attempt unless it was the last        *)
(* attempt allowed.                                                        *)
C11_TerminalErrors ==
  /\ [][\A r \in Runs, e \in StatusErrors \cup {NoTextError} :
          AttemptFails(r, e)
            => IF e.status \in ClientErrorStatus \/ r.attempt = MAX_RETRIES
                 THEN Thrown(r, e)
                 ELSE WaitsToRetry(r, e)]_vars
  /\ [][\A r \in Runs :
          BackoffDone(r)
            => BagToSet(runs') = {[r EXCEPT !.pc = "generating", !.attempt = r.attempt + 1]}]_vars
  /\ [](\A r \in Runs :
          r.pc = "backoff" => /\ r.lastError.status \notin ClientErrorStatus
                              /\ r.attempt < MAX_RETRIES)

(* A third attempt under way after a failure that carried no status *)
C11_Witness ==
  \E r \in Runs : r.pc = "generating" /\ r.attempt = 2 /\ r.lastError.status = 0

(* The runs that appear in a step *)
NewRuns == {r \in BagToSet(runs') : CopiesIn(r, runs') > CopiesIn(r, runs)}

(* A call made without a key is rejected at once: it sends no request and  *)
(* carries the error of the missing key.                                   *)
RejectedWithoutKey ==
  \A r \in NewRuns :
    (Called(r) /\ r.attempt = 0 /\ r.pc # "backoff" /\ ~apiKey)
      => r.pc = "rejected" /\ r.lastError = NoKeyError

(* The rejection is the next thing that happens, and it makes the track    *)
(* ERROR with the message of the missing key; no request and no backoff    *)
(* wait of that run follows.                                               *)
RejectionSurfaces ==
  (\E r \in Runs : r.pc = "rejected")
    => \E r \in Runs :
         /\ r.pc = "rejected"
         /\ KeyMissing(r)
         /\ \A r2 \in NewRuns : r2.id # r.id
         /\ r.id \in Ids(tracks)
              => /\ TrackOf(tracks', r.id).status = "ERROR"
                 /\ TrackOf(tracks', r.id).error = NoKeyError.message

(* C12: without an API key generateLrcFromAudio throws before any request  *)
(* to the service, without retry or backoff; the track ends in ERROR with  *)
(* that message, and isolation (if enabled) is the only work done for it.  *)
C12_MissingKey ==
  /\ [][RejectedWithoutKey]_vars
  /\ [][RejectionSurfaces]_vars
  /\ [](\A r \in Runs : r.pc = "rejected" => r.attempt = 0 /\ r.lastError = NoKeyError)

(* A track with isolation that failed for the missing key *)
C12_Witness ==
  \E t \in Tracks : t.useIsolation /\ t.status = "ERROR" /\ t.error = NoKeyError.message


(***************************************************************************)
(* LRC documents                                                           *)
(***************************************************************************)

(* The line begins with a timestamp [mm:ss.f..f] of n fraction digits *)
Stamp(line, n) ==
  /\ Len(line) >= 8 + n
  /\ line[1] = "[" /\ line[4] = ":" /\ line[7] = "." /\ line[8 + n] = "]"
  /\ \A i \in {2, 3, 5, 6} \cup 8..(7 + n) : IsDigit(line[i])

Stamped(line) == Stamp(line, 2) \/ Stamp(line, 3)

(* The number a sequence of digits writes *)
RECURSIVE Number(_)
Number(ds) ==
  IF ds = <<>> THEN 0
  ELSE 10 * Number(SubSeq(ds, 1, Len(ds) - 1)) + DigitVal(ds[Len(ds)])

(* minutes * 60 + seconds field of a stamped line, in milliseconds *)
StampSeconds(line) ==
  LET n == IF Stamp(line, 3) THEN 3 ELSE 2
  IN  Number(SubSeq(line, 2, 3)) * 60000 + Number(SubSeq(line, 5, 6)) * 1000
        + Number(SubSeq(line, 8, 7 + n)) * (IF n = 2 THEN 10 ELSE 1)

(* What follows the timestamp of a stamped line *)
StampText(line) ==
  SubSeq(line, (IF Stamp(line, 3) THEN 12 ELSE 11), Len(line))

(* text is s without the white space around it *)
IsTrimOf(text, s) ==
  /\ text # <<>> => text[1] \notin WhiteSpace /\ text[Len(text)] \notin WhiteSpace
  /\ \E a \in 0..Len(s) :
       /\ a + Len(text) <= Len(s)
       /\ SubSeq(s, a + 1, a + Len(text)) = text
       /\ \A i \in 1..a \cup (a + Len(text) + 1)..Len(s) : s[i] \in WhiteSpace

NoMetadata == [title |-> <<>>, artist |-> <<>>]

(* b is a rounded to 2 decimals *)
SameTo2Decimals(a, b) == b % 10 = 0 /\ a - b <= 5 /\ b - a <= 5

(* The entries are the same in number, order, timestamp and text *)
SameLines(ls, ms) ==
  /\ Len(ms) = Len(ls)
  /\ \A k \in DOMAIN ls :
       /\ SameTo2Decimals(ls[k].seconds, ms[k].seconds)
       /\ ms[k].text = ls[k].text

(* C14: parseLrc(stringifyLrc(parseLrc(doc))) equals parseLrc(doc): as many *)
(* lines, in the same order, with the same timestamps to 2 decimals and    *)
(* the same texts, for every timestamp the parser accepts.                 *)
C14_RoundTrip ==
  editor.open =>
    \A ups \in SUBSET HalfwayIn(parsedLines) :
      SameLines(parsedLines,
                parseLrc(stringifyLrc(parsedLines, NoMetadata, ups)))

(* The header lines that are expected for the title and the artist *)
ExpectedHeaders(metadata) ==
  (IF metadata.title # <<>>
   THEN <<(<<"[", "t", "i", ":">> \o metadata.title \o <<"]">>)>> ELSE <<>>)
  \o (IF metadata.artist # <<>>
      THEN <<(<<"[", "a", "r", ":">> \o metadata.artist \o <<"]">>)>> ELSE <<>>)

(* The line is [MM:SS.ff] text for the entry: 2 minute digits, 2 integer   *)
(* and 2 fraction digits of seconds, a blank and the text of the entry     *)
EntryLine(line, entry) ==
  /\ Stamp(line, 2)
  /\ Len(line) >= 11 /\ line[11] = " "
  /\ SubSeq(line, 12, Len(line)) = entry.text
  /\ SameTo2Decimals(entry.seconds, StampSeconds(line))

(* C15: stringifyLrc emits a [ti:...] line and then an [ar:...] line, each *)
(* only when that field is non-empty, then one line [MM:SS.ff] text per    *)
(* entry with exactly 2 minute digits, 2 integer and 2 fraction digits of  *)
(* seconds; the lines are joined by single newlines, none trails.          *)
C15_StringifyLrc ==
  (editor.open /\ parsedLines # <<>>) =>
    \A ups \in SUBSET HalfwayIn(parsedLines) :
      LET metadata == [title |-> editor.title, artist |-> editor.artist]
          headers  == ExpectedHeaders(metadata)
          output   == split(stringifyLrc(parsedLines, metadata, ups))
      IN  /\ Len(output) = Len(headers) + Len(parsedLines)
          /\ SubSeq(output, 1, Len(headers)) = headers
          /\ \A k \in DOMAIN parsedLines :
               EntryLine(output[Len(headers) + k], parsedLines[k])

(***************************************************************************)
(* Track metadata                                                          *)
(***************************************************************************)

(* The buffer begins with the ID3 magic *)
HasMagic(b) == Len(b) >= 3 /\ b[1] = 73 /\ b[2] = 68 /\ b[3] = 51

(* The metadata the file name alone gives *)
FilenameOnly(name) ==
  LET filenameMetadata == parseMetadataFromFilename(name)
  IN  [title  |-> filenameMetadata.title,
       artist |-> IF TruthyText(filenameMetadata.artist)
                  THEN filenameMetadata.artist ELSE Unknown]

(* C16: for every buffer, those shorter than 10 bytes, those without the   *)
(* ID3 magic and those with malformed frames included, the tag reader      *)
(* never raises to its caller; a buffer without the magic contributes no   *)
(* tag data, the result is the metadata derived from the file name.        *)
C16_TagReaderNeverRaises ==
  /\ file.pc # "rejected"
  /\ (file.pc # "none" /\ ~HasMagic(file.bytes)) =>
       /\ file.id3Title = UndefinedText
       /\ file.id3Artist = UndefinedText
       /\ file.pc = "resolved" => file.result = FilenameOnly(file.name)

(* A buffer that ends inside the magic: the read of the third byte threw,  *)
(* the promise resolved all the same                                       *)
C16_Witness == file.pc = "resolved" /\ file.bytes = <<73, 68>>

(* C17: of several TIT2 (or TPE1) frames the first non-empty decoded value *)
(* is recorded; no later frame of that identifier, empty or not,           *)
(* overwrites it.                                                          *)
C17_FirstValueWins ==
  [][/\ TruthyText(file.id3Title) => file'.id3Title = file.id3Title
     /\ TruthyText(file.id3Artist) => file'.id3Artist = file.id3Artist]_vars

(* C18: while the frames are walked no byte at or beyond the scan limit    *)
(* min(declared size + 10, buffer length) is read, the encoding byte and   *)
(* the text bytes of a TIT2 or TPE1 frame of declared size 0 included.     *)
C18_ReadsBelowLimit ==
  file.pc \in {"frames", "caught", "merge", "resolved"} =>
    \A i \in file.reads : i < file.limit

(* C19: the title is the tag title when that is non-empty, else the title  *)
(* derived from the file name; the artist is the tag artist when           *)
(* non-empty, else the artist derived from the file name when non-empty,   *)
(* else "Unknown".                                                         *)
C19_Precedence ==
  file.pc = "resolved" =>
    LET filenameMetadata == parseMetadataFromFilename(file.name)
    IN  /\ file.result.title =
             (IF file.id3Title \notin {UndefinedText, <<>>}
              THEN file.id3Title ELSE filenameMetadata.title)
        /\ file.result.artist =
             (IF file.id3Artist \notin {UndefinedText, <<>>}
              THEN file.id3Artist
              ELSE IF filenameMetadata.artist \notin {UndefinedText, <<>>}
                   THEN filenameMetadata.artist
                   ELSE Unknown)

(* A tag with a title and no artist on a file whose name gives both *)
C19_Witness ==
  /\ file.pc = "resolved"
  /\ file.id3Title = <<"A">>
  /\ file.id3Artist = UndefinedText
  /\ file.result = [title |-> <<"A">>,
                    artist |-> <<"A", "r", "t", "i", "s", "t">>]

(* C20: the title derived from a file name is a non-empty string for every *)
(* file name, so the resolved title is defined for every file.             *)
C20_TitleDefined ==
  file.pc # "none" =>
    /\ TruthyText(parseMetadataFromFilename(file.name).title)
    /\ file.pc = "resolved" => TruthyText(file.result.title)

(* The file name without its final extension: a dot and at least one       *)
(* character behind it, none of them a dot or a slash                      *)
IsRest(rest, filename) ==
  LET n == Len(rest)
      extension == n + 2 <= Len(filename) /\ filename[n + 1] = "."
                     /\ \A i \in (n + 2)..Len(filename) :
                          filename[i] \notin {".", "/"}
  IN  /\ n <= Len(filename)
      /\ SubSeq(filename, 1, n) = rest
      /\ n = Len(filename) \/ extension
      /\ n = Len(filename) =>
           ~\E m \in 0..(Len(filename) - 2) :
              /\ filename[m + 1] = "."
              /\ \A i \in (m + 2)..Len(filename) : filename[i] \notin {".", "/"}

Separator == <<" ", "-", " ">>

(* String.prototype.split(" - "): the segments between the separators *)
RECURSIVE Segments(_)
Segments(s) ==
  IF separators(s) = {} THEN <<s>>
  ELSE LET i == CHOOSE a \in separators(s) : \A b \in separators(s) : a <= b
       IN  <<SubSeq(s, 1, i - 1)>> \o Segments(SubSeq(s, i + 3, Len(s)))

(* The segments joined again with the separator *)
RECURSIVE Rejoined(_)
Rejoined(segs) ==
  IF Len(segs) = 1 THEN segs[1]
  ELSE segs[1] \o Separator \o Rejoined(Tail(segs))

(* C21 as stated: parseMetadataFromFilename strips the final extension; if *)
(* the rest contains " - " the artist is the segment before the first      *)
(* separator and the title is the remaining segments joined with the       *)
(* separator, else the title is the whole rest and the artist undefined.   *)
C21_SegmentsAsTheyAre ==
  file.pc # "none" =>
    \E rest \in {SubSeq(file.name, 1, n) : n \in 0..Len(file.name)} :
      /\ IsRest(rest, file.name)
      /\ LET segs == Segments(rest)
             filenameMetadata == parseMetadataFromFilename(file.name)
         IN  IF Len(segs) >= 2
             THEN /\ filenameMetadata.artist = segs[1]
                  /\ filenameMetadata.title = Rejoined(Tail(segs))
             ELSE /\ filenameMetadata.title = rest
                  /\ filenameMetadata.artist = UndefinedText

(* C21, amended: the same, but with a separator present the artist and the *)
(* title are the segment and the joined remainder without the white space  *)
(* around them.                                                            *)
C21_FilenameHeuristic ==
  file.pc # "none" =>
    \E rest \in {SubSeq(file.name, 1, n) : n \in 0..Len(file.name)} :
      /\ IsRest(rest, file.name)
      /\ LET segs == Segments(rest)
             filenameMetadata == parseMetadataFromFilename(file.name)
         IN  IF Len(segs) >= 2
             THEN /\ IsTrimOf(filenameMetadata.artist, segs[1])
                  /\ IsTrimOf(filenameMetadata.title, Rejoined(Tail(segs)))
             ELSE /\ filenameMetadata.title = rest
                  /\ filenameMetadata.artist = UndefinedText

(* A name of three segments, resolved through the heuristic *)
C21_Witness ==
  /\ file.pc = "resolved"
  /\ file.name = <<"A", " ", "-", " ", "B", " ", "-", " ", "C", ".", "w", "a", "v">>
  /\ file.result = [title |-> <<"B", " ", "-", " ", "C">>, artist |-> <<"A">>]

(***************************************************************************)
(* WAV encoding                                                            *)
(***************************************************************************)

(* The bytes of an unsigned and of a signed number, lowest byte first *)
LittleEndian(x, bytes) ==
  [i \in 1..bytes |-> IF i = 1 THEN x % 256
                      ELSE IF i = 2 THEN (x \div 256) % 256
                      ELSE IF i = 3 THEN (x \div 65536) % 256
                      ELSE (x \div 16777216) % 256]
Signed16(x) == LittleEndian(IF x < 0 THEN x + 65536 ELSE x, 2)

(* The reference encoding of n mono samples *)
ReferenceHeader(n, sampleRate) ==
  <<82, 73, 70, 70>> \o LittleEndian(36 + 2 * n, 4)       \* RIFF, RIFF size
    \o <<87, 65, 86, 69>> \o <<102, 109, 116, 32>>        \* WAVE, fmt
    \o LittleEndian(16, 4) \o LittleEndian(1, 2)          \* PCM
    \o LittleEndian(1, 2) \o LittleEndian(sampleRate, 4)  \* 1 channel, rate
    \o LittleEndian(sampleRate * 2, 4)                    \* byte rate
    \o LittleEndian(2, 2) \o LittleEndian(16, 2)          \* align, bits
    \o <<100, 97, 116, 97>> \o LittleEndian(2 * n, 4)     \* data, length

(* C22: for a rendered mono buffer of n samples bufferToWav returns the    *)
(* reference encoding: 44 + 2n bytes, the 44-byte header (RIFF size        *)
(* 36 + 2n, PCM, 1 channel, the sample rate, byte rate sampleRate * 2,     *)
(* block align 2, 16 bits, data length 2n), then n little-endian 16-bit    *)
(* samples, output sample k the scaled value of rendered sample k.         *)
C22_ReferenceWav ==
  call.pc = "returned" =>
    LET n == Len(call.samples)
    IN  /\ Len(call.view) = 44 + 2 * n
        /\ SubSeq(call.view, 1, 44) = ReferenceHeader(n, call.sampleRate)
        /\ \A k \in 0..(n - 1) :
             SubSeq(call.view, 44 + 2 * k + 1, 44 + 2 * k + 2)
               = Signed16(scale(clamp(call.samples[k + 1])))

(* The 16-bit value of a sample: clamped to [-1, 1], times 32768 when      *)
(* negative and times 32767 otherwise, the fraction dropped                *)
Pcm16(q) ==
  LET s == IF q < -Quarter THEN -Quarter ELSE IF q > Quarter THEN Quarter ELSE q
      x == IF s < 0 THEN s * 32768 ELSE s * 32767
  IN  IF x >= 0 THEN x \div Quarter ELSE -((-x) \div Quarter)

(* C23: each float sample s is written as the 16-bit value of s clamped to *)
(* [-1, 1], multiplied by 32768 when s is negative and by 32767 when it is *)
(* not, truncated toward zero; the value lies in [-32768, 32767].          *)
C23_SampleScaling ==
  [][(call.pc = "samples" /\ call'.pc = "samples") =>
       LET value == Pcm16(call.samples[call.pos + 1])
       IN  /\ value \in -32768..32767
           /\ SubSeq(call'.view, 44 + call.offset + 1, 44 + call.offset + 2)
                = Signed16(value)]_vars


(***************************************************************************)
(* Bulk LRC matching                                                       *)
(***************************************************************************)

(* The tracks a file matches by stem, by its [ti] title and by its [ar]    *)
(* artist                                                                  *)
ByStem(ts, lrcFile) ==
  {i \in DOMAIN ts : stem(ts[i].name) = stem(lrcFile.name)}
ByTitle(ts, lrcFile) ==
  LET lrcTitle == tagValue(lrcFile.content, <<"t", "i">>)
  IN  {i \in DOMAIN ts : /\ lrcTitle # NoTag /\ Len(lrcTitle) > 3
                         /\ includes(stem(ts[i].name), lrcTitle)}
ByArtist(ts, lrcFile) ==
  LET lrcArtist == tagValue(lrcFile.content, <<"a", "r">>)
  IN  {i \in DOMAIN ts : /\ lrcArtist # NoTag /\ Len(lrcArtist) > 3
                         /\ startsWith(stem(ts[i].name), lrcArtist)}

(* The tracks the priority order allows for a file *)
ByPriority(ts, lrcFile) ==
  IF ByStem(ts, lrcFile) # {} THEN ByStem(ts, lrcFile)
  ELSE IF ByTitle(ts, lrcFile) # {} THEN ByTitle(ts, lrcFile)
  ELSE ByArtist(ts, lrcFile)

(* C24: each uploaded file is matched to at most one track, chosen in      *)
(* priority order over the whole list: a track of the same stem            *)
(* (case-insensitive) if there is one, else a track whose stem contains    *)
(* the file's [ti] title (longer than 3), else a track whose stem starts   *)
(* with the file's [ar] artist (longer than 3); else there is no update.   *)
C24_BulkMatching ==
  [][call.pc = "reading" =>
       \A i \in call.unread \ call'.unread :
         LET lrcFile == call.fileList[i]
             allowed == ByPriority(call.tracks, lrcFile)
         IN  IF allowed = {} THEN call'.updates = call.updates
             ELSE \E t \in allowed :
                    call'.updates =
                      Append(call.updates, [id |-> call.tracks[t].id,
                                            content |-> lrcFile.content])]_vars

(***************************************************************************)
(* Archive export                                                          *)
(***************************************************************************)

(* The tracks that are COMPLETED with non-empty LRC text *)
CompletedTracks ==
  {i \in DOMAIN tracks :
     tracks[i].status = "COMPLETED" /\ tracks[i].lrcContent \notin {Undef, ""}}

(* C25: the archive bundles exactly the tracks that are COMPLETED with     *)
(* non-empty lrcContent, one .lrc entry per such track holding its LRC     *)
(* text: as many entries as completed tracks, also when two tracks have    *)
(* the same file name stem.                                                *)
C25_ArchiveExport ==
  call.pc = "downloaded" =>
    /\ Len(call.zip) = Cardinality(CompletedTracks)
    /\ \E entryOf \in [CompletedTracks -> DOMAIN call.zip] :
         /\ \A i, j \in CompletedTracks : entryOf[i] = entryOf[j] => i = j
         /\ \A i \in CompletedTracks :
              call.zip[entryOf[i]].content = tracks[i].lrcContent

(***************************************************************************)
(* The batch as a barrier                                                  *)
(***************************************************************************)

(* A started batch ends: the status leaves GENERATING_LRC for COMPLETED *)
BatchEnds == (status = "GENERATING_LRC") ~> (status = "COMPLETED")

(* The track of the batch is settled: COMPLETED, ERROR, or removed *)
Settled(ts, id) ==
  id \in Ids(ts) => TrackOf(ts, id).status \in {"COMPLETED", "ERROR"}

(* When the last worker returns, every track of the batch is settled *)
BatchSettled ==
  [][status = "GENERATING_LRC" /\ status' = "COMPLETED"
       => \A i \in DOMAIN batch.pending : Settled(tracks', batch.pending[i])]_vars

(* handleGenerateAll with no pending track: COMPLETED, and no new run *)
NothingPending ==
  [][/\ status = "CONFIGURATION"
     /\ status' \in {"GENERATING_LRC", "COMPLETED"}
     /\ \A i \in DOMAIN tracks : ~isPending(tracks[i])
     => status' = "COMPLETED" /\ runs' = runs]_vars

(* C26: a batch is a wait-all barrier.  When every isolation and service   *)
(* call eventually returns or throws, handleGenerateAll eventually sets    *)
(* the status to COMPLETED, and when it does every track of the batch is   *)
(* COMPLETED or ERROR or has been removed; with no pending track it sets   *)
(* COMPLETED at once and runs no pipeline.                                 *)
C26_WaitAllBarrier == BatchEnds /\ BatchSettled /\ NothingPending

(***************************************************************************)
(* The visual editor                                                       *)
(***************************************************************************)

(* The entries of the content in the order of its lines *)
InDocumentOrder ==
  LET lines == split(editor.content) IN forEach(lines, Len(lines))

(* C27: in the visual editor, after any sequence of adjustTimestamp        *)
(* (+0.1 or -0.1 s) and updateLineText edits, every parsed line has a      *)
(* timestamp greater than or equal to 0 and the parsed lines are in        *)
(* non-decreasing order of timestamp.                                      *)
C27_EditorLines ==
  editor.open /\ budget < LrcEdits =>
    /\ \A i \in DOMAIN parsedLines : parsedLines[i].seconds >= 0
    /\ \A i, j \in DOMAIN parsedLines :
         i < j => parsedLines[i].seconds <= parsedLines[j].seconds

(* An edit has moved a line behind the line that followed it *)
C27_Witness ==
  /\ editor.open
  /\ budget < LrcEdits
  /\ Len(parsedLines) = 2
  /\ Len(InDocumentOrder) = 2
  /\ InDocumentOrder[1].seconds > InDocumentOrder[2].seconds

(* An edit has taken a line that was less than 0.1 s from the start to 0 *)
ClampedAtZero ==
  /\ editor.open
  /\ budget < LrcEdits
  /\ \E i \in DOMAIN parsedLines : parsedLines[i].seconds = 0

(* after holds the entries of newLines, the entry at index with its text   *)
(* and every entry with its timestamp to 2 decimals                        *)
Lossless(newLines, after) ==
  /\ Len(after) = Len(newLines)
  /\ \E p \in Permutations(DOMAIN newLines) :
       \A k \in DOMAIN newLines :
         /\ SameTo2Decimals(newLines[k].seconds, after[p[k]].seconds)
         /\ after[p[k]].text = newLines[k].text

(* The step sets the content to the text of newLines *)
Writes(newLines) ==
  /\ budget' < budget
  /\ \E ups \in SUBSET HalfwayIn(newLines) :
       editor'.content = stringifyLrc(newLines, [title  |-> editor.title,
                                                artist |-> editor.artist], ups)

(* Every edit of the lines `before` that the step has made is lossless *)
EditsLossless(before, after, texts) ==
  \A index \in DOMAIN before :
    /\ \A delta \in {-100, 100} :
         LET newLines == [before EXCEPT ![index].seconds = Max(0, @ + delta)]
         IN  Writes(newLines) => Lossless(newLines, after)
    /\ \A newText \in texts \cup {before[index].text} :
         LET newLines == [before EXCEPT ![index].text = newText]
         IN  Writes(newLines) => Lossless(newLines, after)

(* C28: a visual edit of one line is lossless for the rest of the          *)
(* document.  After adjustTimestamp or updateLineText on line i, parsing   *)
(* the new content gives the same number of lines, the edited line with    *)
(* the new timestamp or the new text, and every other line with its        *)
(* timestamp (to 2 decimals) and its text.                                 *)
C28_LosslessEdit ==
  [][LET before == parsedLines
         after  == parseLrc(editor'.content)
     IN  EditsLossless(before, after, NewTexts)]_vars

(* The same for the documents below 100 minutes and the texts without      *)
(* white space around them                                                 *)
LosslessBelow100Minutes ==
  [][LET before == parsedLines
         after  == parseLrc(editor'.content)
     IN  (\A k \in DOMAIN before : before[k].seconds < 5999000)
           => EditsLossless(before, after, {t \in NewTexts : trimChars(t) = t})]_vars

(***************************************************************************)
(* Runs and uploads                                                        *)
(***************************************************************************)

(* The number of runs in flight for the track: the suspended processTrack  *)
(* calls that were started for it                                          *)
RunsOf(id) ==
  LET rs == {r \in BagToSet(runs) : r.id = id}
  IN  IF rs = {} THEN 0
      ELSE IF Cardinality(rs) = 1
           THEN CopiesIn(CHOOSE r \in rs : TRUE, runs)
           ELSE Cardinality(rs)

(* C29: at no instant are two pipeline runs in flight for the same track:  *)
(* under any interleaving of handleRetry, handleModifyConfig and           *)
(* handleGenerateAll a track that is ISOLATING or GENERATING is not        *)
(* started again by a batch or by a retry.                                 *)
C29_OneRunPerTrack == \A id \in Ids(tracks) : RunsOf(id) <= 1

(* The track holds the text the user has uploaded, as the upload left it *)
HoldsUpload(t) == t.status = "COMPLETED" /\ t.lrcContent = UserLrc

(* C30: LRC content supplied by the user for a track (handleUploadLrc or   *)
(* handleBulkUploadLrc) is never replaced by a generation result: once a   *)
(* track holds uploaded lrcContent, no pipeline run that was started       *)
(* before the upload changes its lrcContent or its status when it          *)
(* finishes.                                                               *)
C30_UploadKept ==
  [][Pipeline =>
       \A i \in DOMAIN tracks :
         (HoldsUpload(tracks[i]) /\ i \in DOMAIN tracks')
           => /\ tracks'[i].lrcContent = tracks[i].lrcContent
              /\ tracks'[i].status = tracks[i].status]_vars

====
